---- MODULE Spec2Model ----
(***************************************************************************)
(* A model of the per-device control loop of MAD and of the layers it      *)
(* rests on: the Communicator (websocket/communicator.py), the telemetry   *)
(* store PlayerData (data_handler/mitm_data/PlayerData.py) and the scan    *)
(* loop of WorkerBase / WorkerQuests (worker/).                            *)
(*                                                                         *)
(* The components are independent of each other, so each has its own       *)
(* specification over its own variables:                                   *)
(*   SpecComm    concurrent callers of one Communicator                    *)
(*   SpecOk      the boolean-acknowledge decision on one reply             *)
(*   SpecPlayer  writes to and reads from one PlayerData                   *)
(*   SpecLoop    WorkerBase._main_work_thread with check_walker            *)
(***************************************************************************)
EXTENDS Integers, Sequences, FiniteSets, TLC

VARIABLES
    \* ---- Communicator ----
    send_mutex,      \* holder of Communicator.__send_mutex, or NoCaller
    lockQueue,       \* callers suspended in "async with self.__send_mutex", FIFO
    cpc,             \* per caller: "idle", "wait_lock", "in_flight", "done"
    cop,             \* per caller: the private path its command takes
    ctimeout,        \* per caller: the timeout argument (NoTimeout = None)
    ctimer,          \* per caller: time units spent in the current wait
    cret,            \* per caller: what the command gave back
    \* ---- boolean acknowledge ----
    ok_reply,        \* the reply send_and_wait returned (NoReply = None)
    ok_result,       \* what __run_and_ok_bytes returned for it
    \* ---- PlayerData ----
    latest,          \* LatestMitmDataHolder: kind -> entry, or NoEntry
    last_cell_ids,   \* PlayerData.__last_cell_ids
    last_possibly_moved,  \* PlayerData.__last_possibly_moved
    lastWritten,     \* history: kind -> payload of the latest update_latest
    prevGmoCells,    \* history: cells of the latest write to kind "106"
    gmoShared,       \* history: the latest "106" write shares a cell with
                     \*          the "106" write before it
    gmoTs,           \* history: timestamp_received of the latest "106" write
    overwritten,     \* history: the kinds written more than once
    lastKey,         \* history: the kind of the latest write
    \* ---- control loop ----
    pc,              \* position of _main_work_thread
    stop_worker_event,   \* WorkerBase._stop_worker_event
    finished,        \* device setting FINISHED
    walker,          \* WorkerBase._walker: algo_type, algo_value, eventid
    current_event,   \* self._event.get_current_event_id()
    clock,           \* math.floor(time.time())
    workerstart,     \* WorkerBase.workerstart (NoStart = None)
    rounds,          \* the router's completed rounds of this device
    current_location,    \* WorkerBase.current_location ("none" = None)
    location_count,  \* WorkerBase._location_count
    cleanup_count,   \* how often _internal_cleanup has run
    raised,          \* history: the typed stop condition a phase raised
    walker_stop,     \* history: check_walker returned False in the loop
    iteration,       \* history: the phases run in the current iteration
    ran_after_stop,  \* history: a phase ran after a typed stop or walker stop
    first_eval,      \* history: the clock at the first check_walker (NoStart
                     \*          before it)
    process_location,    \* _main_work_thread's local process_location
    reboot_run,      \* history: _reboot was executed in this thread
    failure,         \* history: a phase raised an exception that is none of
                     \*          the typed stop conditions
    \* ---- WorkerQuests: work mutex and background task ----
    work_mutex,      \* holder of WorkerBase._work_mutex: "none", "main", "clear"
    clear_thread_task,   \* WorkerQuests.clear_thread_task
    level_mode,      \* WorkerQuests._level_mode
    main_pc,         \* position of the control loop of WorkerQuests
    clear_pc,        \* position of _clear_thread
    cleanupbox,      \* _move_to_location's local cleanupbox
    last_command,    \* history: who issued the latest device command and who
                     \*          held the work mutex then
    pending,         \* history: the requests written to clear_thread_task
                     \*          whose cleanup has not been started since
    \* ---- screen recovery (_ensure_pogo_topmost) ----
    screen_pc,       \* "idle", "loop" (in the while loop), "done", "raised"
    screen_type,     \* _ensure_pogo_topmost's local screen_type
    last_screen_type,    \* WorkerBase._last_screen_type
    same_screen_count,   \* WorkerBase._same_screen_count
    loginerrorcounter,   \* WorkerBase._loginerrorcounter
    screen_ret,      \* what _ensure_pogo_topmost returned: "true", "false"
                     \*          ("none" before)
    n_classified,    \* history: classifications obtained in this call
                     \*          (counted up to MaxClassified)
    last_classified, \* history: the latest classifier output of this call
    all_close,       \* history: every classification of this call was CLOSE
    fresh,           \* history: the call began with all counters initial
    escalated_at,    \* history: the classification after which the login
                     \*          escalation was issued in this call (0: none)
    leave,           \* history: how the loop of this call was left
    run_type,        \* history: the last classification of any call
    run_len,         \* history: how many classifications in a row, over the
                     \*          calls, were run_type (up to MaxRun)
    reboots,         \* history: the calls of _reboot in this call
    pass_commands,   \* history: the remedies of the last pass of the loop,
                     \*          in the order of their calls
    clear_game_data, \* the device setting CLEAR_GAME_DATA
    reboot_setting,  \* the device setting REBOOT
    reboot_sent,     \* history: _reboot sent the reboot command in this call
    reboot_saved,    \* history: _reboot saved last_reboot in this call
    restarted,       \* history: what _restart_pogo, called by the frozen-
                     \*          screen check of this call, returned: "no" (not
                     \*          called), "ok" or "failed"
    \* ---- Phase A (_current_position_has_spinnable_stop) ----
    pa_pc,           \* "idle", "scan" (in the loop over the forts), "done",
                     \*          "raised"
    current_position,    \* WorkerBase.current_location as lat and lng, in
                     \*          units of 0.00001 degrees
    ignore_spinned_stops,    \* WorkerQuests._ignore_spinned_stops
    spinnable_data_failcount,    \* WorkerQuests._spinnable_data_failcount
    fort,            \* the loop's local fort: the fort examined last
    fort_status,     \* history: what the loop did with fort: "continue",
                     \*          the status returned for it ("none" before)
    position_type,   \* what Phase A returned ("none" before)
    data_failure,    \* history: what _spinnable_data_failure did when the
                     \*          latest check failed: "counted", "restart"
                     \*          ("none": the latest check did not fail)
    \* ---- Phase B (_try_to_open_pokestop, _handle_stop) ----
    stop_pc,         \* "idle", "phase_a" (Phase A runs), "checked" (at the
                     \*          recheck loop), "tap" (at the open loop),
                     \*          "handle" (at the loop of _handle_stop),
                     \*          "done", "raised"
    open_caller,     \* who called _try_to_open_pokestop: "post_move", or
                     \*          _handle_stop after a "softban" or for a "retry"
    stop_type,       \* _try_to_open_pokestop's local stop_type
    recheck_count,   \* _try_to_open_pokestop's local recheck_count
    type_received,   \* _try_to_open_pokestop's local type_received
    open_to,         \* _try_to_open_pokestop's local to
    handle_to,       \* _handle_stop's local to
    data_received,   \* _handle_stop's local data_received
    clear_quest_counter,     \* WorkerQuests._clear_quest_counter
    waits,           \* history: waits for a spin result in this call of
                     \*          _handle_stop (counted up to MaxWaits)
    tapped,          \* history: a stop was clicked in this iteration
    redo_requested,  \* history: routemanager_redo_stop was called in this
                     \*          iteration
    coords_removed,  \* history: routemanager_add_coords_to_be_removed was
                     \*          called in this iteration
    handled,         \* history: _handle_stop was called in this iteration
    visited_reported,\* history: the latest Phase A found, in level mode
                     \*          with visited stops to be ignored, a visited
                     \*          stop (not a gym) at the current location
    raise_cause,     \* history: why InternalStopWorkerException was raised:
                     \*          "stopped" (stop flag or no position type),
                     \*          "restart" (_restart_pogo failed), or "none"
    \* ---- _check_for_data_content ----
    data_clock,      \* time.time(), in whole seconds
    latest_ts,       \* the timestamp of the entry of each proto in `latest`
                     \*          (Absent: the proto is not in latest)
    stop_process_time,       \* WorkerQuests._stop_process_time
    latest_quest,    \* WorkerQuests._latest_quest
    last_cleanup_time,       \* the device setting LAST_CLEANUP_TIME
    last_questclear_time,    \* the device setting LAST_QUESTCLEAR_TIME
    found,           \* the type _check_for_data_content returned last for
                     \*          the action at stop_process_time ("none":
                     \*          not called since)
    accepted_ts,     \* history: the timestamp of the entry that made it
                     \*          return a type other than UNDEFINED
    \* ---- _move_to_location ----
    move_pc,         \* "idle", "sleep" (in the sleep loop), "slept" (after
                     \*          it), "done", "raised"
    last_location,   \* WorkerBase.last_location
    target_location, \* self.current_location, where the move goes
    area_speed,      \* area_settings.speed
    area_max_distance,       \* area_settings.max_distance (0: not set)
    move_distance,   \* the distance to the location
    move_command,    \* history: the command that moved the device,
                     \*          "set_location" or "walk"
    walk_speed,      \* history: the speed of the walk command
    delay_used,      \* _move_to_location's local delay_used
    current_sleep_time,      \* WorkerQuests._current_sleep_time
    elapsed,         \* time.time() - cur_time, in whole seconds
    slept,           \* history: the calls of asyncio.sleep(1) in this move
    routemanager_present     \* routemanager_present(self._routemanager_id)

commVars == <<send_mutex, lockQueue, cpc, cop, ctimeout, ctimer, cret>>
okVars == <<ok_reply, ok_result>>
playerVars == <<latest, last_cell_ids, last_possibly_moved, lastWritten,
                prevGmoCells, gmoShared, gmoTs, overwritten, lastKey>>
loopVars == <<pc, stop_worker_event, finished, walker, current_event, clock,
              workerstart, rounds, current_location, location_count,
              cleanup_count, raised, walker_stop, iteration, ran_after_stop,
              first_eval, process_location, failure, reboot_run>>
loopVarsButStop == <<pc, finished, walker, current_event, clock,
                     workerstart, rounds, current_location, location_count,
                     cleanup_count, raised, walker_stop, iteration,
                     ran_after_stop, first_eval, process_location, failure,
                     reboot_run>>
questVars == <<work_mutex, clear_thread_task, level_mode, main_pc, clear_pc,
               cleanupbox, last_command, pending>>
screenVars == <<screen_pc, screen_type, last_screen_type, same_screen_count,
                loginerrorcounter, screen_ret, n_classified, last_classified,
                all_close, fresh, escalated_at, leave, run_type, run_len,
                reboots, restarted, pass_commands, clear_game_data,
                reboot_setting, reboot_sent, reboot_saved>>
phaseAVars == <<pa_pc, current_position, ignore_spinned_stops,
                spinnable_data_failcount, fort, fort_status, position_type,
                data_failure>>
phaseAVarsButFailcount == <<pa_pc, current_position, ignore_spinned_stops,
                            fort, fort_status, position_type, data_failure>>
questVarsButTask == <<work_mutex, level_mode, main_pc, clear_pc, cleanupbox,
                      last_command, pending>>
stopVars == <<stop_pc, open_caller, stop_type, recheck_count, type_received,
              open_to, handle_to, data_received, clear_quest_counter, waits,
              tapped, coords_removed, handled, visited_reported,
              raise_cause, redo_requested>>
dataVars == <<data_clock, latest_ts, stop_process_time, latest_quest,
              last_cleanup_time, last_questclear_time, found, accepted_ts>>
moveVars == <<move_pc, last_location, target_location, area_speed,
              area_max_distance, move_distance, move_command, walk_speed,
              delay_used, current_sleep_time, elapsed, slept,
              routemanager_present>>
vars == <<commVars, okVars, playerVars, loopVars, questVars, screenVars,
          phaseAVars, stopVars, dataVars, moveVars>>

otherThanComm == <<okVars, playerVars, loopVars, questVars, screenVars,
    phaseAVars, stopVars, dataVars, moveVars>>
otherThanOk == <<commVars, playerVars, loopVars, questVars, screenVars,
    phaseAVars, stopVars, dataVars, moveVars>>
otherThanPlayer == <<commVars, okVars, loopVars, questVars, screenVars,
    phaseAVars, stopVars, dataVars, moveVars>>
otherThanLoop == <<commVars, okVars, playerVars, questVars, screenVars,
    phaseAVars, stopVars, dataVars, moveVars>>
otherThanQuest == <<commVars, okVars, playerVars, loopVarsButStop, screenVars,
    phaseAVars, stopVars, dataVars, moveVars>>
otherThanScreen == <<commVars, okVars, playerVars, loopVarsButStop, questVars,
    phaseAVars, stopVars, dataVars, moveVars>>
otherThanPhaseA == <<commVars, okVars, playerVars, loopVarsButStop, questVars,
    screenVars, stopVars, dataVars, moveVars>>
otherThanStop == <<commVars, okVars, playerVars, loopVars, questVarsButTask,
    screenVars, phaseAVarsButFailcount, dataVars, moveVars>>
otherThanData == <<commVars, okVars, playerVars, loopVars, questVars,
    screenVars, phaseAVars, stopVars, moveVars>>
otherThanMove == <<commVars, okVars, playerVars, loopVarsButStop,
    questVars, screenVars, phaseAVars, stopVars, dataVars>>

(***************************************************************************)
(* Communicator                                                            *)
(***************************************************************************)
NumCallers == 2
MaxTimeout == 2
command_timeout == 1

Callers == 1..NumCallers
NoCaller == 0
NoTimeout == 0
NoReply == <<"None">>

\* The three ways a public command reaches send_and_wait.
GuardedOps == {"run_and_ok_bytes", "run_get_gesponse"}
Operations == GuardedOps \cup {"passthrough"}

\* Python's str.strip(): leading and trailing whitespace removed.
Whitespace == {" ", "\n"}

RECURSIVE lstrip(_)
lstrip(s) ==
    IF s # <<>> /\ Head(s) \in Whitespace THEN lstrip(Tail(s)) ELSE s

RECURSIVE rstrip(_)
rstrip(s) ==
    IF s # <<>> /\ s[Len(s)] \in Whitespace
    THEN rstrip(SubSeq(s, 1, Len(s) - 1))
    ELSE s

strip(s) == rstrip(lstrip(s))

run_and_ok_bytes_result_untrimmed(result) ==
    result # NoReply /\ result = <<"O", "K">>

\* return result is not None and "OK" == result.strip()
run_and_ok_bytes_result(result) ==
    result # NoReply /\ strip(result) = <<"O", "K">>

effective_timeout_added(op, timeout) ==
    IF op = "passthrough" THEN command_timeout
    ELSE IF op = "run_get_gesponse" /\ timeout = NoTimeout THEN command_timeout
    ELSE command_timeout + timeout

\* timeout = self.__command_timeout if timeout is None else timeout
effective_timeout(op, timeout) ==
    IF op = "passthrough" THEN command_timeout
    ELSE IF op = "run_get_gesponse" /\ timeout = NoTimeout THEN command_timeout
    ELSE timeout

release_send_mutex_on_return(holder, c, by_exception) ==
    IF holder = c /\ ~by_exception THEN NoCaller ELSE holder

\* Leaving "async with self.__send_mutex", by return or by exception.
release_send_mutex(holder, c, by_exception) ==
    IF holder = c THEN NoCaller ELSE holder

\* Replies a device gives in the Communicator specification.
CommReplies ==
    {NoReply, <<"O", "K">>, <<"O", "K", "\n">>, <<"K", "O", ":">>}

\* What the command gives back to its caller for a reply.
command_result(op, reply) ==
    IF op = "run_and_ok_bytes"
    THEN IF run_and_ok_bytes_result(reply) THEN "true" ELSE "false"
    ELSE IF reply = NoReply THEN "none" ELSE "payload"

InFlight == {c \in Callers : cpc[c] = "in_flight"}

\* The timeouts a caller passes: __run_and_ok_bytes always gets one,
\* __run_get_gesponse may get none.
TimeoutArgs(op) ==
    IF op = "run_and_ok_bytes" THEN 1..MaxTimeout
    ELSE IF op = "run_get_gesponse" THEN {NoTimeout} \cup (1..MaxTimeout)
    ELSE {NoTimeout}

InitComm ==
    /\ send_mutex = NoCaller
    /\ lockQueue = <<>>
    /\ cpc = [c \in Callers |-> "idle"]
    /\ cop = [c \in Callers |-> "none"]
    /\ ctimeout = [c \in Callers |-> NoTimeout]
    /\ ctimer = [c \in Callers |-> 0]
    /\ cret = [c \in Callers |-> "none"]

\* A caller enters a mutex-guarded command; the mutex is free and nobody waits
\* for it, so it is taken and the message is sent without suspension.
CallGuardedFree(c, op, t) ==
    /\ cpc[c] = "idle"
    /\ op \in GuardedOps
    /\ send_mutex = NoCaller /\ lockQueue = <<>>
    /\ send_mutex' = c
    /\ cpc' = [cpc EXCEPT ![c] = "in_flight"]
    /\ cop' = [cop EXCEPT ![c] = op]
    /\ ctimeout' = [ctimeout EXCEPT ![c] = t]
    /\ ctimer' = [ctimer EXCEPT ![c] = 0]
    /\ cret' = [cret EXCEPT ![c] = "none"]
    /\ UNCHANGED lockQueue
    /\ UNCHANGED otherThanComm

\* A caller enters a mutex-guarded command while the mutex is taken (or
\* promised to an earlier waiter): it suspends in the lock's queue.
CallGuardedBusy(c, op, t) ==
    /\ cpc[c] = "idle"
    /\ op \in GuardedOps
    /\ ~(send_mutex = NoCaller /\ lockQueue = <<>>)
    /\ lockQueue' = Append(lockQueue, c)
    /\ cpc' = [cpc EXCEPT ![c] = "wait_lock"]
    /\ cop' = [cop EXCEPT ![c] = op]
    /\ ctimeout' = [ctimeout EXCEPT ![c] = t]
    /\ ctimer' = [ctimer EXCEPT ![c] = 0]
    /\ cret' = [cret EXCEPT ![c] = "none"]
    /\ UNCHANGED send_mutex
    /\ UNCHANGED otherThanComm

\* passthrough (and magisk_off / magisk_on through it) calls send_and_wait
\* directly.
CallPassthrough(c) ==
    /\ cpc[c] = "idle"
    /\ cpc' = [cpc EXCEPT ![c] = "in_flight"]
    /\ cop' = [cop EXCEPT ![c] = "passthrough"]
    /\ ctimeout' = [ctimeout EXCEPT ![c] = NoTimeout]
    /\ ctimer' = [ctimer EXCEPT ![c] = 0]
    /\ cret' = [cret EXCEPT ![c] = "none"]
    /\ UNCHANGED <<send_mutex, lockQueue>>
    /\ UNCHANGED otherThanComm

\* The first waiter is woken once the mutex is released, takes it and sends.
AcquireMutex(c) ==
    /\ cpc[c] = "wait_lock"
    /\ send_mutex = NoCaller
    /\ lockQueue # <<>> /\ Head(lockQueue) = c
    /\ send_mutex' = c
    /\ lockQueue' = Tail(lockQueue)
    /\ cpc' = [cpc EXCEPT ![c] = "in_flight"]
    /\ ctimer' = [ctimer EXCEPT ![c] = 0]
    /\ UNCHANGED <<cop, ctimeout, cret>>
    /\ UNCHANGED otherThanComm

\* send_and_wait returns the reply within the timeout.
ReplyArrives(c, reply) ==
    /\ cpc[c] = "in_flight"
    /\ ctimer[c] <= effective_timeout(cop[c], ctimeout[c])
    /\ cpc' = [cpc EXCEPT ![c] = "done"]
    /\ cret' = [cret EXCEPT ![c] = command_result(cop[c], reply)]
    /\ send_mutex' = release_send_mutex(send_mutex, c, FALSE)
    /\ ctimer' = [ctimer EXCEPT ![c] = 0]
    /\ UNCHANGED <<lockQueue, cop, ctimeout>>
    /\ UNCHANGED otherThanComm

\* No reply within the timeout: send_and_wait raises the timeout error.
ReplyTimeout(c) ==
    /\ cpc[c] = "in_flight"
    /\ ctimer[c] >= effective_timeout(cop[c], ctimeout[c])
    /\ cpc' = [cpc EXCEPT ![c] = "done"]
    /\ cret' = [cret EXCEPT ![c] = "WebsocketWorkerTimeoutException"]
    /\ send_mutex' = release_send_mutex(send_mutex, c, TRUE)
    /\ ctimer' = [ctimer EXCEPT ![c] = 0]
    /\ UNCHANGED <<lockQueue, cop, ctimeout>>
    /\ UNCHANGED otherThanComm

\* The caller has consumed the result and may issue its next command.
CommandReturns(c) ==
    /\ cpc[c] = "done"
    /\ cpc' = [cpc EXCEPT ![c] = "idle"]
    /\ cop' = [cop EXCEPT ![c] = "none"]
    /\ ctimeout' = [ctimeout EXCEPT ![c] = NoTimeout]
    /\ cret' = [cret EXCEPT ![c] = "none"]
    /\ UNCHANGED <<send_mutex, lockQueue, ctimer>>
    /\ UNCHANGED otherThanComm

\* One time unit passes for every caller that waits. A reply wait that has
\* used up its timeout ends before more time passes, and so does the wake-up
\* of a waiter of a released mutex.
CommTick ==
    /\ \E c \in Callers : cpc[c] \in {"wait_lock", "in_flight"}
    /\ \A c \in InFlight : ctimer[c] < effective_timeout(cop[c], ctimeout[c])
    /\ ~(send_mutex = NoCaller /\ lockQueue # <<>>)
    /\ ctimer' = [c \in Callers |->
                    IF cpc[c] \in {"wait_lock", "in_flight"}
                    THEN ctimer[c] + 1 ELSE ctimer[c]]
    /\ UNCHANGED <<send_mutex, lockQueue, cpc, cop, ctimeout, cret>>
    /\ UNCHANGED otherThanComm

NextComm ==
    \/ \E c \in Callers, op \in GuardedOps :
         \E t \in TimeoutArgs(op) : CallGuardedFree(c, op, t)
    \/ \E c \in Callers, op \in GuardedOps :
         \E t \in TimeoutArgs(op) : CallGuardedBusy(c, op, t)
    \/ \E c \in Callers : CallPassthrough(c)
    \/ \E c \in Callers : AcquireMutex(c)
    \/ \E c \in Callers, reply \in CommReplies : ReplyArrives(c, reply)
    \/ \E c \in Callers : ReplyTimeout(c)
    \/ \E c \in Callers : CommandReturns(c)
    \/ CommTick

(***************************************************************************)
(* Boolean acknowledge on one reply                                        *)
(***************************************************************************)
MaxReplyLen == 4

ReplyChars == {"O", "K", " ", "\n", ":"}

ReplyTexts ==
    UNION {[1..n -> ReplyChars] : n \in 0..MaxReplyLen}

InitOk ==
    /\ ok_reply \in ReplyTexts \cup {NoReply}
    /\ ok_result = "pending"

\* __run_and_ok_bytes decides on the reply send_and_wait returned.
RunAndOkBytes ==
    /\ ok_result = "pending"
    /\ ok_result' = IF run_and_ok_bytes_result(ok_reply) THEN "true" ELSE "false"
    /\ UNCHANGED ok_reply
    /\ UNCHANGED otherThanOk

NextOk == RunAndOkBytes

(***************************************************************************)
(* PlayerData: the telemetry store of one device                           *)
(***************************************************************************)
MaxTs == 2
MaxBody == 2

GMO == "106"
Kinds == {GMO, "104"}
CellIds == {1, 2}
NoEntry == [present |-> FALSE]
NoTs == 0

\* A payload: some content, and for map objects the list of cells ("cells"
\* may be missing from the payload, or be empty).
Payloads ==
    {[body |-> b, has_cells |-> FALSE, cells |-> {}] : b \in 1..MaxBody}
    \cup {[body |-> b, has_cells |-> TRUE, cells |-> S] :
              b \in 1..MaxBody, S \in SUBSET CellIds}

\* LatestMitmDataHolder.update: the entry of the kind is overwritten.
holder_update(entries, key, value, timestamp_received, timestamp_of_data_retrieval) ==
    [entries EXCEPT ![key] =
        [present |-> TRUE, value |-> value,
         timestamp_received |-> timestamp_received,
         timestamp_of_data_retrieval |-> timestamp_of_data_retrieval]]

\* LatestMitmDataHolder.get_latest
holder_get_latest(entries, key) == entries[key]

get_specific_latest_data(key) == holder_get_latest(latest, key)

\* cells = gmo_payload.get("cells", None); if not cells: return
\* if bool(set(cells).intersection(self.__last_cell_ids)): ...
parse_gmo_for_location(cell_ids, moved, gmo_payload, timestamp) ==
    IF ~gmo_payload.has_cells \/ gmo_payload.cells = {}
    THEN [last_cell_ids |-> cell_ids, last_possibly_moved |-> moved]
    ELSE IF gmo_payload.cells \cap cell_ids # {}
    THEN [last_cell_ids |-> gmo_payload.cells, last_possibly_moved |-> timestamp]
    ELSE [last_cell_ids |-> cell_ids, last_possibly_moved |-> moved]

update_latest_gmo_parsed_only(key, value, timestamp_received, timestamp_of_data_retrieval) ==
    LET parsed == IF key = "106"
                  THEN parse_gmo_for_location(last_cell_ids, last_possibly_moved,
                                              value, timestamp_received)
                  ELSE [last_cell_ids |-> last_cell_ids,
                        last_possibly_moved |-> last_possibly_moved]
    IN  [latest |-> IF key = "106" THEN latest
                    ELSE holder_update(latest, key, value, timestamp_received,
                                       timestamp_of_data_retrieval),
         last_cell_ids |-> parsed.last_cell_ids,
         last_possibly_moved |-> parsed.last_possibly_moved]

\* PlayerData.update_latest: what it leaves in the holder and in the two
\* fields of the movement detection.
update_latest(key, value, timestamp_received, timestamp_of_data_retrieval) ==
    LET parsed == IF key = "106"
                  THEN parse_gmo_for_location(last_cell_ids, last_possibly_moved,
                                              value, timestamp_received)
                  ELSE [last_cell_ids |-> last_cell_ids,
                        last_possibly_moved |-> last_possibly_moved]
    IN  [latest |-> holder_update(latest, key, value, timestamp_received,
                                  timestamp_of_data_retrieval),
         last_cell_ids |-> parsed.last_cell_ids,
         last_possibly_moved |-> parsed.last_possibly_moved]

get_last_possibly_moved == last_possibly_moved

InitPlayer ==
    /\ latest = [k \in Kinds |-> NoEntry]
    /\ last_cell_ids = {}
    /\ last_possibly_moved = 0
    /\ lastWritten = [k \in Kinds |-> NoEntry]
    /\ prevGmoCells = {}
    /\ gmoShared = FALSE
    /\ gmoTs = NoTs
    /\ overwritten = {}
    /\ lastKey = "none"

\* One telemetry write arrives from the device.
UpdateLatest(key, value, ts, tr) ==
    LET after == update_latest(key, value, ts, tr)
    IN  /\ latest' = after.latest
        /\ last_cell_ids' = after.last_cell_ids
        /\ last_possibly_moved' = after.last_possibly_moved
        /\ lastWritten' = [lastWritten EXCEPT ![key] =
                               [present |-> TRUE, value |-> value]]
        /\ overwritten' = IF lastWritten[key].present
                          THEN overwritten \cup {key} ELSE overwritten
        /\ lastKey' = key
        /\ IF key = GMO
           THEN /\ prevGmoCells' = value.cells
                /\ gmoShared' = (value.cells \cap prevGmoCells # {})
                /\ gmoTs' = ts
           ELSE UNCHANGED <<prevGmoCells, gmoShared, gmoTs>>
        /\ UNCHANGED otherThanPlayer

NextPlayer ==
    \E key \in Kinds, value \in Payloads, ts \in 1..MaxTs :
        \E tr \in {NoTs, ts} : UpdateLatest(key, value, ts, tr)

(***************************************************************************)
(* The control loop: WorkerBase._main_work_thread and check_walker         *)
(***************************************************************************)
MaxClock == 4
MaxRounds == 4
MaxAlgoValue == 3
MaxLocationCount == 2

NoStart == -1
NoEvent == 0
Events == {1, 2}

TypedStops == {"InternalStopWorkerException", "WebsocketWorkerRemovedException",
               "WebsocketWorkerTimeoutException",
               "WebsocketWorkerConnectionClosedException"}

\* SettingsWalkerarea.algo_value is a text: empty, a number, a time window
\* ("08:00-10:00") or some text without a colon.
AlgoValue(kind, n) == [kind |-> kind, n |-> n]
EmptyValue == AlgoValue("empty", 0)
NumberValues == {AlgoValue("number", n) : n \in 0..MaxAlgoValue}
WindowValue == AlgoValue("window", 0)
NoColonValue == AlgoValue("nocolon", 0)

AlgoValuesOf(algo_type) ==
    IF algo_type \in {"countdown", "round"} THEN {EmptyValue} \cup NumberValues
    ELSE IF algo_type = "timer" THEN {EmptyValue, NoColonValue, WindowValue}
    ELSE IF algo_type \in {"period", "coords", "idle"} THEN {EmptyValue, WindowValue}
    ELSE {EmptyValue}

AlgoTypes == {"countdown", "timer", "round", "period", "coords", "idle", "unknown"}

Walkers ==
    {[algo_type |-> m, algo_value |-> v, eventid |-> e] :
        m \in AlgoTypes, v \in UNION {AlgoValuesOf(t) : t \in AlgoTypes},
        e \in {NoEvent, 1}}

WalkerConfigs == {w \in Walkers : w.algo_value \in AlgoValuesOf(w.algo_type)}

\* walkereventid is not None and walkereventid != current event id
OtherEventStarted(w, event) == w.eventid # NoEvent /\ w.eventid # event

\* mode == "countdown"
check_walker_countdown_late(w, now, ws) ==
    IF w.algo_value.kind = "empty"
    THEN [ret |-> FALSE, workerstart |-> ws]
    ELSE IF ws = NoStart
    THEN [ret |-> TRUE, workerstart |-> now]
    ELSE [ret |-> ~(now > ws + w.algo_value.n), workerstart |-> ws]

check_walker_countdown(w, now, ws) ==
    IF w.algo_value.kind = "empty"
    THEN [ret |-> FALSE, workerstart |-> ws]
    ELSE IF ws = NoStart
    THEN [ret |-> TRUE, workerstart |-> now]
    ELSE [ret |-> ~(now >= ws + w.algo_value.n), workerstart |-> ws]

\* mode == "round"
check_walker_round_late(w, processed_rounds) ==
    IF w.algo_value.kind = "empty"
    THEN FALSE
    ELSE ~(processed_rounds > w.algo_value.n)

check_walker_round(w, processed_rounds) ==
    IF w.algo_value.kind = "empty"
    THEN FALSE
    ELSE ~(processed_rounds >= w.algo_value.n)

\* check_walker for every mode but the sleeping part of "idle". in_window is
\* what check_walker_value_type answers for the walker's time window.
check_walker(w, event, now, ws, processed_rounds, in_window) ==
    IF OtherEventStarted(w, event)
    THEN [ret |-> FALSE, workerstart |-> ws]
    ELSE IF w.algo_type = "countdown"
    THEN check_walker_countdown(w, now, ws)
    ELSE IF w.algo_type = "timer"
    THEN IF w.algo_value.kind \in {"empty", "nocolon"}
         THEN [ret |-> FALSE, workerstart |-> ws]
         ELSE [ret |-> in_window, workerstart |-> ws]
    ELSE IF w.algo_type = "round"
    THEN [ret |-> check_walker_round(w, processed_rounds), workerstart |-> ws]
    ELSE IF w.algo_type = "period"
    THEN IF w.algo_value.kind = "empty"
         THEN [ret |-> FALSE, workerstart |-> ws]
         ELSE [ret |-> in_window, workerstart |-> ws]
    ELSE IF w.algo_type = "coords"
    THEN IF w.algo_value.kind # "empty"
         THEN [ret |-> in_window, workerstart |-> ws]
         ELSE [ret |-> TRUE, workerstart |-> ws]
    ELSE [ret |-> FALSE, workerstart |-> ws]

\* Mode "idle" with a window that is open: the app is stopped and the worker
\* sleeps until the window closes or the stop flag is set.
idle_sleeps(w, event, in_window) ==
    /\ ~OtherEventStarted(w, event)
    /\ w.algo_type = "idle"
    /\ w.algo_value.kind # "empty"
    /\ in_window

next_phase_move_skipped(phase) ==
    CASE phase = "pre_work" -> "max_walkers"
      [] phase = "max_walkers" -> "loop_head"
      [] phase = "walker" -> "health"
      [] phase = "health" -> "grab"
      [] phase = "grab" -> "valid"
      [] phase = "valid" -> "pre_move"
      [] phase = "pre_move" -> "post_move"
      [] phase = "move" -> "post_move"
      [] phase = "post_move" -> "loop_head"

\* The position after a phase that ended normally.
next_phase(phase) ==
    CASE phase = "pre_work" -> "max_walkers"
      [] phase = "max_walkers" -> "loop_head"
      [] phase = "walker" -> "health"
      [] phase = "health" -> "grab"
      [] phase = "grab" -> "valid"
      [] phase = "valid" -> "pre_move"
      [] phase = "pre_move" -> "move"
      [] phase = "move" -> "post_move"
      [] phase = "post_move" -> "loop_head"

on_typed_stop_health_logged(phase) ==
    IF phase = "health" THEN next_phase(phase) ELSE "cleanup"

\* The handlers of the typed stop conditions around each phase: pre-work
\* cleans up and returns, every phase of the loop breaks out of the loop.
on_typed_stop(phase) == "cleanup"

on_walker_stop_unflagged(fin) == [finished |-> fin, pc |-> "cleanup"]

\* if not walkercheck: set FINISHED, break
on_walker_stop(fin) == [finished |-> TRUE, pc |-> "cleanup"]

LoopPhases == {"walker", "health", "grab", "valid", "pre_move", "move", "post_move"}

\* Phases whose code reaches persistent storage (_restart_pogo, _reboot).
StoragePhases == {"pre_work", "health", "move", "post_move"}

\* History of one executed phase.
Ran(phase) ==
    /\ iteration' = Append(iteration, phase)
    /\ ran_after_stop' = (ran_after_stop \/ raised # "none" \/ walker_stop)

\* History of one evaluation of check_walker.
Evaluated == first_eval' = IF first_eval = NoStart THEN clock ELSE first_eval

InitLoop ==
    /\ pc = "pre_work"
    /\ stop_worker_event = FALSE
    /\ finished = FALSE
    /\ walker \in WalkerConfigs
    /\ current_event \in Events
    /\ clock = 0
    /\ workerstart = NoStart
    /\ rounds = 0
    /\ current_location = "start"
    /\ location_count = 0
    /\ cleanup_count = 0
    /\ raised = "none"
    /\ walker_stop = FALSE
    /\ iteration = <<>>
    /\ ran_after_stop = FALSE
    /\ first_eval = NoStart
    /\ process_location = FALSE
    /\ failure = FALSE
    /\ reboot_run = FALSE

\* _internal_pre_work ends normally.
PreWorkOk ==
    /\ pc = "pre_work"
    /\ pc' = next_phase("pre_work")
    /\ UNCHANGED <<stop_worker_event, finished, walker, current_event, clock,
                   workerstart, rounds, current_location, location_count,
                   cleanup_count, raised, walker_stop, iteration,
                   ran_after_stop, first_eval>>
    /\ UNCHANGED <<process_location, failure, reboot_run>>
    /\ UNCHANGED otherThanLoop

\* _internal_pre_work: WebsocketWorkerRemovedException under the work mutex
\* is caught there, the stop flag is set and the method returns.
PreWorkRemovedInside ==
    /\ pc = "pre_work"
    /\ stop_worker_event' = TRUE
    /\ raised' = "WebsocketWorkerRemovedException"
    /\ pc' = next_phase("pre_work")
    /\ UNCHANGED <<finished, walker, current_event, clock,
                   workerstart, rounds, current_location, location_count,
                   cleanup_count, walker_stop, iteration,
                   ran_after_stop, first_eval>>
    /\ UNCHANGED <<process_location, failure, reboot_run>>
    /\ UNCHANGED otherThanLoop

\* if not await self.check_max_walkers_reached(): FINISHED, cleanup, return
MaxWalkersCheck(ok) ==
    /\ pc = "max_walkers"
    /\ IF ok
       THEN pc' = next_phase("max_walkers") /\ UNCHANGED finished
       ELSE pc' = "cleanup" /\ finished' = TRUE
    /\ UNCHANGED <<stop_worker_event, walker, current_event, clock,
                   workerstart, rounds, current_location, location_count,
                   cleanup_count, raised, walker_stop, iteration,
                   ran_after_stop, first_eval>>
    /\ UNCHANGED <<process_location, failure, reboot_run>>
    /\ UNCHANGED otherThanLoop

\* while not self._stop_worker_event.is_set():
LoopHead ==
    /\ pc = "loop_head"
    /\ pc' = IF stop_worker_event THEN "cleanup" ELSE "walker"
    /\ iteration' = <<>>
    /\ UNCHANGED <<stop_worker_event, finished, walker, current_event, clock,
                   workerstart, rounds, current_location, location_count,
                   cleanup_count, raised, walker_stop, ran_after_stop,
                   first_eval>>
    /\ UNCHANGED <<process_location, failure, reboot_run>>
    /\ UNCHANGED otherThanLoop

\* walkercheck = await self.check_walker(), without the sleep of mode idle
WalkerCheck(in_window) ==
    /\ pc = "walker"
    /\ ~idle_sleeps(walker, current_event, in_window)
    /\ LET r == check_walker(walker, current_event, clock, workerstart,
                             rounds, in_window)
           stop == on_walker_stop(finished)
       IN  /\ workerstart' = r.workerstart
           /\ Evaluated
           /\ IF r.ret
              THEN /\ pc' = next_phase("walker")
                   /\ UNCHANGED <<finished, walker_stop>>
              ELSE /\ pc' = stop.pc
                   /\ finished' = stop.finished
                   /\ walker_stop' = TRUE
    /\ Ran("walker")
    /\ UNCHANGED <<stop_worker_event, walker, current_event, clock, rounds,
                   current_location, location_count, cleanup_count, raised>>
    /\ UNCHANGED <<process_location, failure, reboot_run>>
    /\ UNCHANGED otherThanLoop

\* Mode idle, window open: _stop_pogo, then the sleep loop begins.
WalkerIdleBegin ==
    /\ pc = "walker"
    /\ idle_sleeps(walker, current_event, TRUE)
    /\ pc' = "idle_sleep"
    /\ Ran("walker")
    /\ Evaluated
    /\ UNCHANGED <<stop_worker_event, finished, walker, current_event, clock,
                   workerstart, rounds, current_location, location_count,
                   cleanup_count, raised, walker_stop>>
    /\ UNCHANGED <<process_location, failure, reboot_run>>
    /\ UNCHANGED otherThanLoop

\* while not stop flag and check_walker_value_type(sleeptime): sleep(1)
\* The loop is left; _start_pogo follows.
WalkerIdleWake(in_window) ==
    /\ pc = "idle_sleep"
    /\ stop_worker_event \/ ~in_window
    /\ pc' = "idle_wake"
    /\ UNCHANGED <<stop_worker_event, finished, walker, current_event, clock,
                   workerstart, rounds, current_location, location_count,
                   cleanup_count, raised, walker_stop, iteration,
                   ran_after_stop, first_eval>>
    /\ UNCHANGED <<process_location, failure, reboot_run>>
    /\ UNCHANGED otherThanLoop

\* Mode idle: _start_pogo has ended, check_walker returns False.
WalkerIdleReturn ==
    /\ pc = "idle_wake"
    /\ LET stop == on_walker_stop(finished)
       IN  /\ pc' = stop.pc
           /\ finished' = stop.finished
    /\ walker_stop' = TRUE
    /\ UNCHANGED first_eval
    /\ UNCHANGED <<stop_worker_event, walker, current_event, clock,
                   workerstart, rounds, current_location, location_count,
                   cleanup_count, raised, iteration, ran_after_stop>>
    /\ UNCHANGED <<process_location, failure, reboot_run>>
    /\ UNCHANGED otherThanLoop

\* _internal_health_check and _health_check end normally; the app restart in
\* it may have ended in _reboot, which sets the stop flag.
HealthCheck(rebooted) ==
    /\ pc = "health"
    /\ pc' = next_phase("health")
    /\ stop_worker_event' = (stop_worker_event \/ rebooted)
    /\ location_count' = IF rebooted THEN 0 ELSE location_count
    /\ Ran("health")
    /\ UNCHANGED <<finished, walker, current_event, clock, workerstart, rounds,
                   current_location, cleanup_count, raised, walker_stop,
                   first_eval>>
    /\ reboot_run' = (reboot_run \/ rebooted)
    /\ UNCHANGED <<process_location, failure>>
    /\ UNCHANGED otherThanLoop

\* _internal_grab_next_location: the router gives the next location (None
\* when the route is exhausted) and may have completed a round; the area
\* settings come back, or None (continue). Rounds are counted for walkers of
\* mode round only, the one mode that reads them.
GrabNextLocation(location, has_settings, round_done) ==
    /\ pc = "grab"
    /\ current_location' = location
    /\ round_done => walker.algo_type = "round" /\ rounds < MaxRounds
    /\ rounds' = IF round_done THEN rounds + 1 ELSE rounds
    /\ pc' = IF has_settings THEN next_phase("grab") ELSE "loop_head"
    /\ Ran("grab")
    /\ UNCHANGED <<stop_worker_event, finished, walker, current_event, clock,
                   workerstart, location_count, cleanup_count, raised,
                   walker_stop, first_eval>>
    /\ UNCHANGED <<process_location, failure, reboot_run>>
    /\ UNCHANGED otherThanLoop

\* if not await self._check_location_is_valid(): break
CheckLocationIsValid ==
    /\ pc = "valid"
    /\ IF current_location = "none"
       THEN finished' = TRUE /\ pc' = "cleanup"
       ELSE UNCHANGED finished /\ pc' = next_phase("valid")
    /\ Ran("valid")
    /\ UNCHANGED <<stop_worker_event, walker, current_event, clock, workerstart,
                   rounds, current_location, location_count, cleanup_count,
                   raised, walker_stop, first_eval>>
    /\ UNCHANGED <<process_location, failure, reboot_run>>
    /\ UNCHANGED otherThanLoop

\* await self._pre_location_update()
PreLocationUpdate ==
    /\ pc = "pre_move"
    /\ pc' = next_phase("pre_move")
    /\ Ran("pre_move")
    /\ UNCHANGED <<stop_worker_event, finished, walker, current_event, clock,
                   workerstart, rounds, current_location, location_count,
                   cleanup_count, raised, walker_stop, first_eval>>
    /\ UNCHANGED <<process_location, failure, reboot_run>>
    /\ UNCHANGED otherThanLoop

\* time_snapshot, process_location = await self._move_to_location()
\* if process_location: self._location_count += 1 ...
MoveToLocation(processed) ==
    /\ pc = "move"
    /\ IF processed
       THEN /\ pc' = next_phase("move")
            /\ location_count' = IF location_count < MaxLocationCount
                                 THEN location_count + 1 ELSE location_count
       ELSE /\ pc' = "loop_head"
            /\ UNCHANGED location_count
    /\ Ran("move")
    /\ UNCHANGED <<stop_worker_event, finished, walker, current_event, clock,
                   workerstart, rounds, current_location, cleanup_count, raised,
                   walker_stop, first_eval>>
    /\ process_location' = processed
    /\ UNCHANGED <<failure, reboot_run>>
    /\ UNCHANGED otherThanLoop

\* await self._post_move_location_routine(time_snapshot) ends normally; an
\* app restart in it may have ended in _reboot, which sets the stop flag.
PostMoveLocationRoutine(rebooted) ==
    /\ pc = "post_move"
    /\ pc' = next_phase("post_move")
    /\ stop_worker_event' = (stop_worker_event \/ rebooted)
    /\ Ran("post_move")
    /\ UNCHANGED <<finished, walker, current_event, clock, workerstart, rounds,
                   current_location, location_count, cleanup_count, raised,
                   walker_stop, first_eval>>
    /\ reboot_run' = (reboot_run \/ rebooted)
    /\ UNCHANGED <<process_location, failure>>
    /\ UNCHANGED otherThanLoop

\* A phase raises a typed stop condition that reaches _main_work_thread.
\* The walker check makes device calls only in mode idle.
CanRaiseTyped ==
    \/ pc \in {"pre_work", "health", "grab", "valid", "pre_move", "move",
               "post_move", "idle_wake"}
    \/ pc = "walker" /\ idle_sleeps(walker, current_event, TRUE)

PhaseOf(p) == IF p = "idle_wake" THEN "walker" ELSE p

PhaseRaisesTypedSetsFinished(e) ==
    /\ CanRaiseTyped
    /\ raised' = e
    /\ pc' = on_typed_stop(PhaseOf(pc))
    /\ finished' = TRUE
    /\ IF pc \in {"pre_work", "idle_wake"}
       THEN UNCHANGED <<iteration, ran_after_stop>>
       ELSE Ran(pc)
    /\ UNCHANGED <<stop_worker_event, walker, current_event, clock,
                   workerstart, rounds, current_location, location_count,
                   cleanup_count, walker_stop, first_eval>>
    /\ UNCHANGED <<process_location, failure, reboot_run>>
    /\ UNCHANGED otherThanLoop

PhaseRaisesTyped(e) ==
    /\ CanRaiseTyped
    /\ raised' = e
    /\ pc' = on_typed_stop(PhaseOf(pc))
    /\ IF pc \in {"pre_work", "idle_wake"}
       THEN UNCHANGED <<iteration, ran_after_stop>>
       ELSE Ran(pc)
    /\ UNCHANGED <<stop_worker_event, finished, walker, current_event, clock,
                   workerstart, rounds, current_location, location_count,
                   cleanup_count, walker_stop, first_eval>>
    /\ UNCHANGED <<process_location, failure, reboot_run>>
    /\ UNCHANGED otherThanLoop

\* Any other exception ends _main_work_thread in "except Exception": it is
\* logged and the thread returns.
PhaseRaisesOther ==
    /\ pc \in StoragePhases
    /\ pc' = "returned"
    /\ IF pc = "pre_work" THEN UNCHANGED <<iteration, ran_after_stop>> ELSE Ran(pc)
    /\ UNCHANGED <<stop_worker_event, finished, walker, current_event, clock,
                   workerstart, rounds, current_location, location_count,
                   cleanup_count, raised, walker_stop, first_eval>>
    /\ failure' = TRUE
    /\ UNCHANGED <<process_location, reboot_run>>
    /\ UNCHANGED otherThanLoop

\* The phases that can end in _reboot: the health check (screen check, app
\* restart) and the post-move routine (app restart).
RebootPhases == {"health", "post_move"}

\* _reboot does not run through: the reboot command raises a typed stop
\* condition, which its phase handles, before stop_worker is called.
RebootRaisesTyped(e) ==
    /\ pc \in RebootPhases
    /\ reboot_run' = TRUE
    /\ raised' = e
    /\ pc' = on_typed_stop(pc)
    /\ Ran(pc)
    /\ UNCHANGED <<stop_worker_event, finished, walker, current_event, clock,
                   workerstart, rounds, current_location, location_count,
                   cleanup_count, walker_stop, first_eval>>
    /\ UNCHANGED <<process_location, failure>>
    /\ UNCHANGED otherThanLoop

\* _reboot does not run through: save_last_reboot raises an exception of
\* the storage before stop_worker is called, and "except Exception" ends
\* _main_work_thread.
RebootRaisesOther ==
    /\ pc \in RebootPhases
    /\ reboot_run' = TRUE
    /\ failure' = TRUE
    /\ pc' = "returned"
    /\ Ran(pc)
    /\ UNCHANGED <<stop_worker_event, finished, walker, current_event, clock,
                   workerstart, rounds, current_location, location_count,
                   cleanup_count, raised, walker_stop, first_eval>>
    /\ UNCHANGED process_location
    /\ UNCHANGED otherThanLoop

\* _internal_cleanup, then _main_work_thread returns.
InternalCleanup ==
    /\ pc = "cleanup"
    /\ stop_worker_event' = TRUE
    /\ cleanup_count' = cleanup_count + 1
    /\ pc' = "returned"
    /\ UNCHANGED <<finished, walker, current_event, clock, workerstart, rounds,
                   current_location, location_count, raised, walker_stop,
                   iteration, ran_after_stop, first_eval>>
    /\ UNCHANGED <<process_location, failure, reboot_run>>
    /\ UNCHANGED otherThanLoop

\* stop_worker, called by the owner of the worker at any time.
StopWorker ==
    /\ pc # "returned"
    /\ ~stop_worker_event
    /\ stop_worker_event' = TRUE
    /\ UNCHANGED <<pc, finished, walker, current_event, clock, workerstart,
                   rounds, current_location, location_count, cleanup_count,
                   raised, walker_stop, iteration, ran_after_stop, first_eval>>
    /\ UNCHANGED <<process_location, failure, reboot_run>>
    /\ UNCHANGED otherThanLoop

\* Time passes. The clock is kept for mode countdown only, the one mode that
\* reads it.
ClockTick ==
    /\ pc # "returned"
    /\ walker.algo_type = "countdown"
    /\ clock < MaxClock
    /\ clock' = clock + 1
    /\ UNCHANGED <<pc, stop_worker_event, finished, walker, current_event,
                   workerstart, rounds, current_location, location_count,
                   cleanup_count, raised, walker_stop, iteration,
                   ran_after_stop, first_eval>>
    /\ UNCHANGED <<process_location, failure, reboot_run>>
    /\ UNCHANGED otherThanLoop

\* Another event starts.
EventStarts(event) ==
    /\ pc # "returned"
    /\ event # current_event
    /\ current_event' = event
    /\ UNCHANGED <<pc, stop_worker_event, finished, walker, clock,
                   workerstart, rounds, current_location, location_count,
                   cleanup_count, raised, walker_stop, iteration,
                   ran_after_stop, first_eval>>
    /\ UNCHANGED <<process_location, failure, reboot_run>>
    /\ UNCHANGED otherThanLoop

NextLoop ==
    \/ PreWorkOk
    \/ PreWorkRemovedInside
    \/ \E ok \in BOOLEAN : MaxWalkersCheck(ok)
    \/ LoopHead
    \/ \E in_window \in BOOLEAN : WalkerCheck(in_window)
    \/ WalkerIdleBegin
    \/ \E in_window \in BOOLEAN : WalkerIdleWake(in_window)
    \/ WalkerIdleReturn
    \/ \E rebooted \in BOOLEAN : HealthCheck(rebooted)
    \/ \E location \in {"none", "stop"}, has_settings \in BOOLEAN,
          round_done \in BOOLEAN :
         GrabNextLocation(location, has_settings, round_done)
    \/ CheckLocationIsValid
    \/ PreLocationUpdate
    \/ \E processed \in BOOLEAN : MoveToLocation(processed)
    \/ \E rebooted \in BOOLEAN : PostMoveLocationRoutine(rebooted)
    \/ \E e \in TypedStops : PhaseRaisesTyped(e)
    \/ PhaseRaisesOther
    \/ \E e \in TypedStops : RebootRaisesTyped(e)
    \/ RebootRaisesOther
    \/ InternalCleanup
    \/ StopWorker
    \/ ClockTick
    \/ \E event \in Events : EventStarts(event)

(***************************************************************************)
(* WorkerQuests: the work mutex, the control loop's device commands and    *)
(* the background task _clear_thread                                       *)
(***************************************************************************)
\* class ClearThreadTasks
IDLE == "IDLE"
BOX == "BOX"
QUEST == "QUEST"
ClearThreadTasks == {IDLE, BOX, QUEST}

NoCommand == [by |-> "none", holder |-> "none"]

\* A device command goes out through self._communicator.
issue_command(by) == [by |-> by, holder |-> work_mutex]

\* self.clear_thread_task = request
write_task(request) ==
    /\ clear_thread_task' = request
    /\ pending' = pending \cup {request}

InitQuest ==
    /\ work_mutex = "none"
    /\ clear_thread_task = IDLE
    /\ level_mode \in BOOLEAN
    /\ main_pc = "pre_work_loop"
    /\ clear_pc = "check"
    /\ cleanupbox = FALSE
    /\ last_command = NoCommand
    /\ pending = {}

\* _pre_work_loop: outside level mode and init mode the quest log is to be
\* cleared first.
PreWorkLoop(init) ==
    /\ main_pc = "pre_work_loop"
    /\ IF stop_worker_event
       THEN /\ main_pc' = "stopped"
            /\ UNCHANGED <<clear_thread_task, pending>>
       ELSE /\ main_pc' = "health"
            /\ IF ~level_mode /\ ~init
               THEN write_task(QUEST)
               ELSE UNCHANGED <<clear_thread_task, pending>>
    /\ UNCHANGED <<work_mutex, level_mode, clear_pc, cleanupbox, last_command,
                   stop_worker_event>>
    /\ UNCHANGED otherThanQuest

\* _internal_health_check up to `async with self._work_mutex`.
InternalHealthCheckAcquire ==
    /\ main_pc \in {"health", "health_wait"}
    /\ IF work_mutex = "none" /\ (main_pc = "health_wait"
                                   \/ clear_pc # "wait")
       THEN main_pc' = "health_locked" /\ work_mutex' = "main"
       ELSE /\ main_pc = "health"
            /\ main_pc' = "health_wait" /\ UNCHANGED work_mutex
    /\ UNCHANGED <<clear_thread_task, level_mode, clear_pc, cleanupbox,
                   last_command, pending, stop_worker_event>>
    /\ UNCHANGED otherThanQuest

\* _internal_health_check under the mutex: _start_pogo asks the device
\* whether the app is topmost; the mutex is released.
InternalHealthCheck ==
    /\ main_pc = "health_locked"
    /\ last_command' = issue_command("main")
    /\ work_mutex' = "none"
    /\ main_pc' = "move"
    /\ UNCHANGED <<clear_thread_task, level_mode, clear_pc, cleanupbox,
                   pending, stop_worker_event>>
    /\ UNCHANGED otherThanQuest

\* _move_to_location: the teleport (set_location) or walk command, issued
\* without the work mutex; box_due is "delay_used > 200 and the last cleanup
\* is older than 15 minutes".
MoveCommand(box_due) ==
    /\ main_pc = "move"
    /\ last_command' = issue_command("main")
    /\ cleanupbox' = box_due
    /\ main_pc' = "sleep"
    /\ UNCHANGED <<work_mutex, clear_thread_task, level_mode, clear_pc,
                   pending, stop_worker_event>>
    /\ UNCHANGED otherThanQuest

\* _move_to_location: one pass of the sleep loop `while time.time() <= ...`.
MoveSleep ==
    /\ main_pc = "sleep"
    /\ IF cleanupbox
       THEN write_task(BOX)
       ELSE UNCHANGED <<clear_thread_task, pending>>
    /\ cleanupbox' = FALSE
    /\ main_pc' = IF stop_worker_event THEN "stopped" ELSE "sleep"
    /\ UNCHANGED <<work_mutex, level_mode, clear_pc, last_command,
                   stop_worker_event>>
    /\ UNCHANGED otherThanQuest

\* _move_to_location returns: the sleep is over (or there was none).
MoveReturns ==
    /\ main_pc = "sleep"
    /\ main_pc' = "post_move"
    /\ cleanupbox' = FALSE
    /\ UNCHANGED <<work_mutex, clear_thread_task, level_mode, clear_pc,
                   last_command, pending, stop_worker_event>>
    /\ UNCHANGED otherThanQuest

\* _post_move_location_routine up to `async with self._work_mutex`.
PostMoveAcquire ==
    /\ main_pc \in {"post_move", "post_move_wait"}
    /\ IF main_pc = "post_move" /\ stop_worker_event
       THEN main_pc' = "stopped" /\ UNCHANGED work_mutex
       ELSE IF work_mutex = "none" /\ (main_pc = "post_move_wait"
                                        \/ clear_pc # "wait")
       THEN main_pc' = "open_stop" /\ work_mutex' = "main"
       ELSE /\ main_pc = "post_move"
            /\ main_pc' = "post_move_wait" /\ UNCHANGED work_mutex
    /\ UNCHANGED <<clear_thread_task, level_mode, clear_pc, cleanupbox,
                   last_command, pending, stop_worker_event>>
    /\ UNCHANGED otherThanQuest

\* _post_move_location_routine: _try_to_open_pokestop clicks the stop.
OpenStop ==
    /\ main_pc = "open_stop"
    /\ last_command' = issue_command("main")
    /\ main_pc' = "handle_stop"
    /\ UNCHANGED <<work_mutex, clear_thread_task, level_mode, clear_pc,
                   cleanupbox, pending, stop_worker_event>>
    /\ UNCHANGED otherThanQuest

\* _handle_stop may ask for a cleanup (box full, quest received, ...); the
\* work mutex is released when _post_move_location_routine ends.
HandleStop(request) ==
    /\ main_pc = "handle_stop"
    /\ IF request = IDLE
       THEN UNCHANGED <<clear_thread_task, pending>>
       ELSE write_task(request)
    /\ work_mutex' = "none"
    /\ main_pc' = IF stop_worker_event THEN "stopped" ELSE "health"
    /\ UNCHANGED <<level_mode, clear_pc, cleanupbox, last_command,
                   stop_worker_event>>
    /\ UNCHANGED otherThanQuest

\* _handle_stop: the storage session (`async with self._db_wrapper`) raises
\* an exception that is none of the typed stop conditions; the work mutex is
\* released on the way out and _main_work_thread ends in "except Exception",
\* without _internal_cleanup.
MainRaisesOther ==
    /\ main_pc = "handle_stop"
    /\ work_mutex' = "none"
    /\ main_pc' = "failed"
    /\ UNCHANGED <<clear_thread_task, level_mode, clear_pc, cleanupbox,
                   last_command, pending, stop_worker_event>>
    /\ UNCHANGED otherThanQuest

\* _clear_thread: `while not stop flag`, nothing requested: sleep(1); a
\* request: `async with self._work_mutex`.
ClearCheck ==
    /\ clear_pc \in {"check", "wait"}
    /\ IF clear_pc = "check" /\ stop_worker_event
       THEN clear_pc' = "ended" /\ UNCHANGED work_mutex
       ELSE IF clear_pc = "check" /\ clear_thread_task = IDLE
       THEN UNCHANGED <<clear_pc, work_mutex>>
       ELSE IF work_mutex = "none"
                 /\ (clear_pc = "wait"
                       \/ main_pc \notin {"post_move_wait", "health_wait"})
       THEN clear_pc' = "locked" /\ work_mutex' = "clear"
       ELSE /\ clear_pc = "check"
            /\ clear_pc' = "wait" /\ UNCHANGED work_mutex
    /\ UNCHANGED <<clear_thread_task, level_mode, main_pc, cleanupbox,
                   last_command, pending, stop_worker_event>>
    /\ UNCHANGED otherThanQuest

\* _clear_thread under the mutex, after the first sleep(1): the requested
\* cleanup starts with its first click, or nothing is to be done.
ClearDispatch ==
    /\ clear_pc = "locked"
    /\ IF clear_thread_task = BOX
       THEN /\ clear_pc' = "clear_box"
            /\ last_command' = issue_command("clear")
            /\ pending' = pending \ {BOX}
       ELSE IF clear_thread_task = QUEST /\ ~level_mode
       THEN /\ clear_pc' = "clear_quests"
            /\ last_command' = issue_command("clear")
            /\ pending' = pending \ {QUEST}
       ELSE /\ clear_pc' = "after"
            /\ UNCHANGED <<last_command, pending>>
    /\ UNCHANGED <<work_mutex, clear_thread_task, level_mode, main_pc,
                   cleanupbox, stop_worker_event>>
    /\ UNCHANGED otherThanQuest

\* clear_box / _clear_quests end: the flag is set to IDLE and the second
\* sleep(1) begins; or a typed stop condition ends the task: stop flag,
\* `finally` sets the flag to IDLE, the mutex is released.
ClearDone(removed) ==
    /\ clear_pc \in {"clear_box", "clear_quests"}
    /\ clear_thread_task' = IDLE
    /\ IF removed
       THEN /\ stop_worker_event' = TRUE
            /\ work_mutex' = "none"
            /\ clear_pc' = "removed"
       ELSE /\ clear_pc' = "after"
            /\ UNCHANGED <<stop_worker_event, work_mutex>>
    /\ UNCHANGED <<level_mode, main_pc, cleanupbox, last_command, pending>>
    /\ UNCHANGED otherThanQuest

ClearFinallyKeepsTask ==
    /\ clear_pc = "after"
    /\ work_mutex' = "none"
    /\ clear_pc' = "check"
    /\ UNCHANGED <<clear_thread_task, level_mode, main_pc, cleanupbox,
                   last_command, pending, stop_worker_event>>
    /\ UNCHANGED otherThanQuest

\* _clear_thread after the second sleep(1): `finally` sets the flag to IDLE
\* and the mutex is released.
ClearFinally ==
    /\ clear_pc = "after"
    /\ clear_thread_task' = IDLE
    /\ work_mutex' = "none"
    /\ clear_pc' = "check"
    /\ UNCHANGED <<level_mode, main_pc, cleanupbox, last_command, pending,
                   stop_worker_event>>
    /\ UNCHANGED otherThanQuest

\* stop_worker, called by the owner of the worker.
StopQuestWorker ==
    /\ ~stop_worker_event
    /\ main_pc # "stopped"
    /\ stop_worker_event' = TRUE
    /\ UNCHANGED questVars
    /\ UNCHANGED otherThanQuest

NextQuest ==
    \/ \E init \in BOOLEAN : PreWorkLoop(init)
    \/ InternalHealthCheckAcquire
    \/ InternalHealthCheck
    \/ \E box_due \in BOOLEAN : MoveCommand(box_due)
    \/ MoveSleep
    \/ MoveReturns
    \/ PostMoveAcquire
    \/ OpenStop
    \/ \E request \in ClearThreadTasks : HandleStop(request)
    \/ MainRaisesOther
    \/ ClearCheck
    \/ ClearDispatch
    \/ \E removed \in BOOLEAN : ClearDone(removed)
    \/ ClearFinally
    \/ StopQuestWorker

(***************************************************************************)
(* Screen recovery: WorkerBase._ensure_pogo_topmost                        *)
(***************************************************************************)
MaxClassified == 3

\* The longest run of one classification that is counted.
MaxRun == 5

\* The members of ScreenType that _ensure_pogo_topmost names.
ScreenTypes ==
    {"POGO", "QUEST", "UNDEFINED", "BLACK", "CLOSE", "GAMEDATA", "DISABLED",
     "UPDATE", "ERROR", "FAILURE", "NOGGL", "GPS", "SN", "NOTRESPONDING"}

GoodScreens == {"POGO", "QUEST"}

screen_result_disabled_ok(screen) == screen \in GoodScreens \cup {"DISABLED"}

\* if screen_type in [ScreenType.POGO, ScreenType.QUEST]: return True
screen_result(screen) == screen \in GoodScreens

login_errors_exceeded_late(counter) == counter > 2

\* if self._loginerrorcounter > 1:
login_errors_exceeded(counter) == counter > 1

\* self._same_screen_count after the comparison with the last screen type
counted_same_screen(screen, last, same) ==
    IF screen # "ERROR" /\ last = screen THEN same + 1
    ELSE IF last # screen THEN 0
    ELSE same

\* The login-error counter after the branch of the screen type.
counted_login_error(screen, login) ==
    IF screen \in {"CLOSE", "GAMEDATA", "ERROR", "FAILURE", "NOGGL"}
    THEN login + 1
    ELSE login

\* if self._same_screen_count > 3:
Frozen(same) == same > 3

RebootScreensButNotResponding == {"GPS"}

\* The screen types whose branch is `await self._reboot()` and `break`.
RebootScreens == {"GPS", "NOTRESPONDING"}

\* The remedy of the frozen screen: _restart_pogo unless the count is above
\* 4, and _reboot when the count is above 4 or the restart failed.
frozen_commands(same, restart_ok) ==
    IF same > 4 THEN <<"reboot">>
    ELSE IF restart_ok THEN <<"restart_pogo">>
    ELSE <<"restart_pogo", "reboot">>

safe_restart_wanted_at_second(login) == login = 2

\* if self._loginerrorcounter < 2: await self._restart_pogo_safe()
safe_restart_wanted(login) == login < 2

\* The remedies of the branch of the screen type; login is the login-error
\* counter after the branch has counted.
branch_commands(screen, login) ==
    IF screen = "CLOSE" THEN <<"start_pogo">>
    ELSE IF screen = "GAMEDATA" /\ safe_restart_wanted(login)
    THEN <<"restart_pogo_safe">>
    ELSE IF screen \in RebootScreens THEN <<"reboot">>
    ELSE IF screen = "SN" THEN <<"restart_pogo_safe">>
    ELSE <<>>

escalation_always_wipes(wipe) ==
    <<"stop_pogo", "clear_app_cache", "reset_app_data", "reset_counter", "reboot">>

\* The login escalation: _stop_pogo, clear_app_cache, reset_app_data when
\* CLEAR_GAME_DATA is set, self._loginerrorcounter = 0, _reboot.
escalation(wipe) ==
    <<"stop_pogo", "clear_app_cache">>
      \o (IF wipe THEN <<"reset_app_data">> ELSE <<>>)
      \o <<"reset_counter", "reboot">>

\* One pass of the while loop for a classification that is neither POGO nor
\* QUEST: the counters after it, how the loop is left ("none": it goes on),
\* whether _reboot ran, whether _restart_pogo was called, and the remedies
\* in their order. restart_ok is what _restart_pogo returns, wipe is the
\* setting CLEAR_GAME_DATA.
ensure_pass(screen, last, same, login, restart_ok, wipe) ==
    LET same1 == counted_same_screen(screen, last, same)
        login1 == counted_login_error(screen, login)
        branch == branch_commands(screen, login1)
    IN  IF screen # "ERROR" /\ last = screen /\ Frozen(same1)
        THEN [last |-> last, same |-> same1, login |-> login,
              leave |-> "frozen", reboot |-> (same1 > 4 \/ ~restart_ok),
              restarted |-> IF same1 > 4 THEN "no"
                            ELSE IF restart_ok THEN "ok" ELSE "failed",
              escalated |-> FALSE,
              commands |-> frozen_commands(same1, restart_ok)]
        ELSE IF screen = "DISABLED"
        THEN [last |-> last, same |-> same1, login |-> login1,
              leave |-> "disabled", reboot |-> FALSE, restarted |-> "no",
              escalated |-> FALSE, commands |-> branch]
        ELSE IF screen \in RebootScreens
        THEN [last |-> last, same |-> same1, login |-> login1,
              leave |-> "reboot", reboot |-> TRUE, restarted |-> "no",
              escalated |-> FALSE, commands |-> branch]
        ELSE IF screen = "SN"
        THEN [last |-> last, same |-> same1, login |-> login1,
              leave |-> "restart", reboot |-> FALSE, restarted |-> "no",
              escalated |-> FALSE, commands |-> branch]
        ELSE IF login_errors_exceeded(login1)
        THEN [last |-> last, same |-> same1, login |-> 0,
              leave |-> "login", reboot |-> TRUE, restarted |-> "no",
              escalated |-> TRUE, commands |-> branch \o escalation(wipe)]
        ELSE [last |-> screen, same |-> same1, login |-> login1,
              leave |-> "none", reboot |-> FALSE, restarted |-> "no",
              escalated |-> FALSE, commands |-> branch]

\* `if self.get_devicesettings_value(MappingManagerDevicemappingKey.REBOOT,
\* True)` in _reboot: get_devicesettings_value is a coroutine function and
\* is called without await, so the condition tests the coroutine object, which
\* is true whatever the setting is.
reboot_enabled(setting) == TRUE

InitScreen ==
    /\ screen_pc = "idle"
    /\ screen_type = "UNDEFINED"
    /\ last_screen_type = "UNDEFINED"
    /\ same_screen_count = 0
    /\ loginerrorcounter = 0
    /\ screen_ret = "none"
    /\ n_classified = 0
    /\ last_classified = "none"
    /\ all_close = TRUE
    /\ fresh = TRUE
    /\ escalated_at = 0
    /\ leave = "none"
    /\ run_type = "none"
    /\ run_len = 0
    /\ reboots = 0
    /\ restarted = "no"
    /\ pass_commands = <<>>
    /\ clear_game_data \in BOOLEAN
    /\ reboot_setting \in BOOLEAN
    /\ reboot_sent = FALSE
    /\ reboot_saved = FALSE

\* _ensure_pogo_topmost is called.
EnsurePogoTopmost ==
    /\ screen_pc \in {"idle", "done"}
    /\ screen_pc' = "loop"
    /\ screen_type' = "UNDEFINED"
    /\ screen_ret' = "none"
    /\ n_classified' = 0
    /\ last_classified' = "none"
    /\ all_close' = TRUE
    /\ fresh' = (/\ last_screen_type = "UNDEFINED"
                 /\ same_screen_count = 0
                 /\ loginerrorcounter = 0)
    /\ escalated_at' = 0
    /\ leave' = "none"
    /\ reboots' = 0
    /\ restarted' = "no"
    /\ pass_commands' = <<>>
    /\ reboot_sent' = FALSE
    /\ reboot_saved' = FALSE
    /\ UNCHANGED <<last_screen_type, same_screen_count, loginerrorcounter,
                   run_type, run_len, clear_game_data, reboot_setting,
                   stop_worker_event>>
    /\ UNCHANGED otherThanScreen

\* `while not self._stop_worker_event.is_set()` finds the flag set: the
\* loop is left and the method returns.
EnsureStopped ==
    /\ screen_pc = "loop"
    /\ stop_worker_event
    /\ leave' = "stop"
    /\ screen_ret' = IF screen_result(screen_type) THEN "true" ELSE "false"
    /\ screen_pc' = "done"
    /\ UNCHANGED <<screen_type, last_screen_type, same_screen_count,
                   loginerrorcounter, n_classified, last_classified,
                   all_close, fresh, escalated_at, run_type, run_len,
                   reboots, restarted, pass_commands, clear_game_data,
                   reboot_setting, reboot_sent, reboot_saved,
                   stop_worker_event>>
    /\ UNCHANGED otherThanScreen

\* One pass of the loop: detect_screentype answers screen, the branch of that
\* screen type runs, and when the loop is left the method returns.
EnsurePass(screen, restart_ok) ==
    /\ screen_pc = "loop"
    /\ ~stop_worker_event
    /\ screen_type' = screen
    /\ last_classified' = screen
    /\ n_classified' = IF n_classified < MaxClassified
                       THEN n_classified + 1 ELSE n_classified
    /\ all_close' = (all_close /\ screen = "CLOSE")
    /\ run_type' = screen
    /\ run_len' = IF run_type # screen THEN 1
                  ELSE IF run_len < MaxRun THEN run_len + 1 ELSE run_len
    /\ IF screen \in GoodScreens
       THEN /\ last_screen_type' = screen
            /\ loginerrorcounter' = 0
            /\ leave' = "good"
            /\ pass_commands' = <<>>
            /\ UNCHANGED <<same_screen_count, escalated_at, reboots,
                           restarted, reboot_sent, reboot_saved,
                           stop_worker_event>>
       ELSE LET r == ensure_pass(screen, last_screen_type, same_screen_count,
                                 loginerrorcounter, restart_ok,
                                 clear_game_data)
            IN  /\ last_screen_type' = r.last
                /\ same_screen_count' = r.same
                /\ loginerrorcounter' = r.login
                /\ leave' = r.leave
                /\ escalated_at' = IF r.escalated THEN n_classified'
                                   ELSE escalated_at
                /\ reboots' = IF r.reboot THEN reboots + 1 ELSE reboots
                /\ reboot_sent' =
                     (reboot_sent \/ (r.reboot /\ reboot_enabled(reboot_setting)))
                /\ reboot_saved' =
                     (reboot_saved \/ (r.reboot /\ reboot_enabled(reboot_setting)))
                /\ restarted' = r.restarted
                /\ pass_commands' = r.commands
                /\ stop_worker_event' = (stop_worker_event \/ r.reboot)
    /\ IF leave' = "none"
       THEN UNCHANGED <<screen_pc, screen_ret>>
       ELSE /\ screen_pc' = "done"
            /\ screen_ret' = IF screen_result(screen) THEN "true" ELSE "false"
    /\ UNCHANGED <<fresh, clear_game_data, reboot_setting>>
    /\ UNCHANGED otherThanScreen

\* A device command of a remedy (_start_pogo, _restart_pogo_safe, _reboot ...)
\* raises a typed stop condition: it leaves _ensure_pogo_topmost.
EnsureRaises ==
    /\ screen_pc = "loop"
    /\ ~stop_worker_event
    /\ screen_pc' = "raised"
    /\ UNCHANGED <<screen_type, last_screen_type, same_screen_count,
                   loginerrorcounter, screen_ret, n_classified,
                   last_classified, all_close, fresh, escalated_at, leave,
                   run_type, run_len, reboots, restarted, pass_commands,
                   clear_game_data, reboot_setting, reboot_sent,
                   reboot_saved, stop_worker_event>>
    /\ UNCHANGED otherThanScreen

\* stop_worker, called by the owner of the worker.
StopScreenWorker ==
    /\ ~stop_worker_event
    /\ screen_pc # "raised"
    /\ stop_worker_event' = TRUE
    /\ UNCHANGED screenVars
    /\ UNCHANGED otherThanScreen

EnsureStep ==
    \/ EnsureStopped
    \/ \E screen \in ScreenTypes, restart_ok \in BOOLEAN :
         EnsurePass(screen, restart_ok)

NextScreen ==
    \/ EnsurePogoTopmost
    \/ EnsureStep
    \/ EnsureRaises
    \/ StopScreenWorker

(***************************************************************************)
(* Phase A: WorkerQuests._current_position_has_spinnable_stop              *)
(***************************************************************************)
\* DISTANCE_TO_STOP_TO_CONSIDER_ON_TOP = 0.00006, in the unit of the
\* coordinates: 0.00001 degrees.
DISTANCE_TO_STOP_TO_CONSIDER_ON_TOP == 6

\* if self._spinnable_data_failcount > 9
MaxFailcount == 9

PositionStopType ==
    {"GMO_NOT_AVAILABLE", "GMO_EMPTY", "GYM",
     "VISITED_STOP_IN_LEVEL_MODE_TO_IGNORE", "STOP_DISABLED", "STOP_CLOSED",
     "STOP_COOLDOWN", "NO_FORT", "SPINNABLE_STOP"}

\* The coordinates of the forts: the zero that stands for a missing
\* coordinate, the device's own coordinate, and the coordinates at and one
\* unit above the distance of the on-top test from it.
Coordinates ==
    {0, DISTANCE_TO_STOP_TO_CONSIDER_ON_TOP,
     2 * DISTANCE_TO_STOP_TO_CONSIDER_ON_TOP,
     2 * DISTANCE_TO_STOP_TO_CONSIDER_ON_TOP + 1}

\* Where the device stands when Phase A runs: at the distance of the on-top
\* test from the zero coordinates.
Locations ==
    {[lat |-> DISTANCE_TO_STOP_TO_CONSIDER_ON_TOP,
      lng |-> DISTANCE_TO_STOP_TO_CONSIDER_ON_TOP]}

\* The fields of a fort of a GMO cell that Phase A reads.
Forts ==
    [latitude : Coordinates, longitude : Coordinates, type : {0, 1},
     visited : BOOLEAN, enabled : BOOLEAN, closed : BOOLEAN,
     cooldown_complete_ms : {0, 5000}]

\* A fort without any field: every fort.get answers its default.
NoFort ==
    [latitude |-> 0, longitude |-> 0, type |-> 0, visited |-> FALSE,
     enabled |-> TRUE, closed |-> FALSE, cooldown_complete_ms |-> 0]

abs(x) == IF x < 0 THEN -x ELSE x

on_top_exclusive(location, latitude, longitude) ==
    /\ abs(location.lat - latitude) < DISTANCE_TO_STOP_TO_CONSIDER_ON_TOP
    /\ abs(location.lng - longitude) < DISTANCE_TO_STOP_TO_CONSIDER_ON_TOP

\* abs(self.current_location.lat - latitude) <= DISTANCE_... and
\* abs(self.current_location.lng - longitude) <= DISTANCE_...
on_top(location, latitude, longitude) ==
    /\ abs(location.lat - latitude) <= DISTANCE_TO_STOP_TO_CONSIDER_ON_TOP
    /\ abs(location.lng - longitude) <= DISTANCE_TO_STOP_TO_CONSIDER_ON_TOP

has_cooldown_above(cooldown) == cooldown > 5000

\* if not cooldown == 0
has_cooldown(cooldown) == cooldown # 0

\* The body of `for fort in forts`: "continue" when the loop goes on to the
\* next fort, otherwise the status Phase A returns for this fort.
classify_fort(f, location, level, ignore) ==
    IF f.latitude = 0 \/ f.longitude = 0 THEN "continue"
    ELSE IF ~on_top(location, f.latitude, f.longitude) THEN "continue"
    ELSE IF f.type = 0 THEN "GYM"
    ELSE IF level /\ ignore /\ f.visited
    THEN "VISITED_STOP_IN_LEVEL_MODE_TO_IGNORE"
    ELSE IF ~f.enabled THEN "STOP_DISABLED"
    ELSE IF f.closed THEN "STOP_CLOSED"
    ELSE IF has_cooldown(f.cooldown_complete_ms) THEN "STOP_COOLDOWN"
    ELSE "SPINNABLE_STOP"

ResetsFailcountButSpinnable == {"GYM", "VISITED_STOP_IN_LEVEL_MODE_TO_IGNORE"}

\* The statuses whose return is preceded by
\* self._spinnable_data_failcount = 0.
ResetsFailcount ==
    {"GYM", "VISITED_STOP_IN_LEVEL_MODE_TO_IGNORE", "SPINNABLE_STOP"}

InitPhaseA ==
    /\ pa_pc = "idle"
    /\ current_position = [lat |-> 0, lng |-> 0]
    /\ ignore_spinned_stops \in BOOLEAN
    /\ spinnable_data_failcount = 0
    /\ fort = NoFort
    /\ fort_status = "none"
    /\ position_type = "none"
    /\ data_failure = "none"

restart_due_early(count) == count >= MaxFailcount

\* if self._spinnable_data_failcount > 9
restart_due(count) == count > MaxFailcount

\* _spinnable_data_failure, followed by `return status`. After more than
\* MaxFailcount failures the counter is reset and _restart_pogo runs:
\* restart_ok is what it returns (False raises InternalStopWorkerException),
\* rebooted says that it went through _reboot, which sets the stop flag.
SpinnableDataFailure(status, restart_ok, rebooted) ==
    IF restart_due(spinnable_data_failcount)
    THEN /\ spinnable_data_failcount' = 0
         /\ data_failure' = "restart"
         /\ stop_worker_event' = (stop_worker_event \/ rebooted)
         /\ IF restart_ok
            THEN pa_pc' = "done" /\ position_type' = status
            ELSE pa_pc' = "raised" /\ UNCHANGED position_type
    ELSE /\ spinnable_data_failcount' = spinnable_data_failcount + 1
         /\ data_failure' = "counted"
         /\ pa_pc' = "done"
         /\ position_type' = status
         /\ UNCHANGED stop_worker_event

\* Phase A is called at location and _wait_for_data answers: without a GMO
\* (gmo false) or with a GMO without cells (cells false) it
\* returns at once, otherwise the loop over the forts of the cells around
\* the location begins.
CurrentPositionHasSpinnableStop(location, gmo, cells, restart_ok, rebooted) ==
    /\ pa_pc \in {"idle", "done"}
    /\ ~stop_worker_event
    /\ current_position' = location
    /\ fort' = NoFort
    /\ fort_status' = "none"
    /\ IF ~gmo
       THEN SpinnableDataFailure("GMO_NOT_AVAILABLE", restart_ok, rebooted)
       ELSE IF ~cells
       THEN SpinnableDataFailure("GMO_EMPTY", restart_ok, rebooted)
       ELSE /\ pa_pc' = "scan"
            /\ position_type' = "none"
            /\ data_failure' = "none"
            /\ UNCHANGED <<spinnable_data_failcount, stop_worker_event>>
    /\ UNCHANGED ignore_spinned_stops
    /\ UNCHANGED otherThanPhaseA

\* One pass of `for fort in forts` over the next fort f of the cells around
\* the location.
ExamineFort(f) ==
    /\ pa_pc = "scan"
    /\ fort' = f
    /\ data_failure' = "none"
    /\ LET status == classify_fort(f, current_position, level_mode,
                                   ignore_spinned_stops)
       IN  /\ fort_status' = status
           /\ IF status = "continue"
              THEN UNCHANGED <<pa_pc, position_type,
                               spinnable_data_failcount>>
              ELSE /\ pa_pc' = "done"
                   /\ position_type' = status
                   /\ spinnable_data_failcount' =
                        IF status \in ResetsFailcount
                        THEN 0 ELSE spinnable_data_failcount
    /\ UNCHANGED <<current_position, ignore_spinned_stops, stop_worker_event>>
    /\ UNCHANGED otherThanPhaseA

\* The loops end without a return: no fort of the cells is on top.
NoFortOnTop(restart_ok, rebooted) ==
    /\ pa_pc = "scan"
    /\ SpinnableDataFailure("NO_FORT", restart_ok, rebooted)
    /\ UNCHANGED <<current_position, ignore_spinned_stops, fort, fort_status>>
    /\ UNCHANGED otherThanPhaseA

NextPhaseA ==
    \/ \E location \in Locations, gmo, cells, restart_ok, rebooted \in BOOLEAN :
         CurrentPositionHasSpinnableStop(location, gmo, cells, restart_ok,
                                         rebooted)
    \/ \E f \in Forts : ExamineFort(f)
    \/ \E restart_ok, rebooted \in BOOLEAN : NoFortOnTop(restart_ok, rebooted)

(***************************************************************************)
(* Phase B: _try_to_open_pokestop and _handle_stop                         *)
(***************************************************************************)
\* The most waits for a spin result that the history counts.
MaxWaits == 5

\* The most failed checks in a row that the stop routine is followed
\* through; the restart after more of them is Phase A's own.
MaxFailedChecks == 1

type_contains_stop_or_gym(position_stop_type) == position_stop_type \notin {"GMO_NOT_AVAILABLE", "GMO_EMPTY", "NO_FORT"}

\* type_contains_stop_at_all
type_contains_stop_at_all(position_stop_type) ==
    position_stop_type \in {"SPINNABLE_STOP",
                            "VISITED_STOP_IN_LEVEL_MODE_TO_IGNORE",
                            "STOP_CLOSED", "STOP_COOLDOWN", "STOP_DISABLED"}

\* What _wait_for_data answers for a GMO: _check_for_data_content gives
\* GYM, MON, UNDEFINED or GMO for this proto.
GmoReceived == {"UNDEFINED", "GYM", "MON", "GMO"}

\* What _wait_for_data answers for FORT_DETAILS.
DetailsReceived == {"UNDEFINED", "GYM", "MON", "STOP"}

\* What _wait_for_data answers for FORT_SEARCH: one of the results of
\* FORT_SEARCH_RESULT, or "None" with the type UNDEFINED, GYM or MON.
SearchReceived ==
    {"None", "INVENTORY", "QUEST", "COOLDOWN", "FULL", "TIME",
     "OUT_OF_RANGE", "LIMIT"}

\* The forts of the GMO at the coordinates of the device.
FortsOnTop ==
    {f \in Forts : \E l \in Locations :
                      f.latitude = l.lat /\ f.longitude = l.lng}

InitStop ==
    /\ stop_pc = "idle"
    /\ open_caller = "post_move"
    /\ stop_type = "none"
    /\ recheck_count = 0
    /\ type_received = "UNDEFINED"
    /\ open_to = 0
    /\ handle_to = 0
    /\ data_received = "UNDEFINED"
    /\ clear_quest_counter = 0
    /\ waits = 0
    /\ tapped = FALSE
    /\ coords_removed = FALSE
    /\ redo_requested = FALSE
    /\ handled = FALSE
    /\ visited_reported = FALSE
    /\ raise_cause = "none"

\* The first lines of _try_to_open_pokestop, up to the call of Phase A.
try_to_open_pokestop(caller) ==
    /\ open_caller' = caller
    /\ open_to' = 0
    /\ type_received' = "UNDEFINED"
    /\ recheck_count' = 0
    /\ stop_type' = "none"
    /\ visited_reported' = FALSE
    /\ stop_pc' = "phase_a"

\* _post_move_location_routine up to the call of _try_to_open_pokestop:
\* position_known says that the Router knows a position type, init that
\* the route is in init mode.
StopRoutineBegins(position_known, init) ==
    /\ stop_pc \in {"idle", "done"}
    /\ tapped' = FALSE
    /\ coords_removed' = FALSE
    /\ redo_requested' = FALSE
    /\ handled' = FALSE
    /\ waits' = 0
    /\ visited_reported' = FALSE
    /\ IF stop_worker_event \/ ~position_known
       THEN /\ stop_pc' = "raised"
            /\ raise_cause' = "stopped"
            /\ stop_type' = "none"
            /\ UNCHANGED <<open_caller, open_to, type_received,
                           recheck_count>>
       ELSE IF init
       THEN /\ stop_pc' = "done"
            /\ stop_type' = "none"
            /\ UNCHANGED <<open_caller, open_to, type_received,
                           recheck_count, raise_cause>>
       ELSE /\ try_to_open_pokestop("post_move")
            /\ UNCHANGED raise_cause
    /\ data_received' = "UNDEFINED"
    /\ UNCHANGED <<handle_to, clear_quest_counter,
                   spinnable_data_failcount, clear_thread_task>>
    /\ UNCHANGED otherThanStop

\* Phase A fails with status: _spinnable_data_failure and `return status`;
\* restart_ok is what _restart_pogo returns when the restart is due.
PhaseAFails(status, restart_ok) ==
    /\ stop_pc = "phase_a"
    /\ spinnable_data_failcount < MaxFailedChecks
    /\ visited_reported' = FALSE
    /\ IF restart_due(spinnable_data_failcount)
       THEN /\ spinnable_data_failcount' = 0
            /\ IF restart_ok
               THEN /\ stop_pc' = "checked"
                    /\ stop_type' = status
                    /\ UNCHANGED raise_cause
               ELSE /\ stop_pc' = "raised"
                    /\ raise_cause' = "restart"
                    /\ UNCHANGED stop_type
       ELSE /\ spinnable_data_failcount' = spinnable_data_failcount + 1
            /\ stop_pc' = "checked"
            /\ stop_type' = status
            /\ UNCHANGED raise_cause
    /\ UNCHANGED <<open_caller, recheck_count, type_received, open_to,
                   handle_to, data_received, clear_quest_counter, waits,
                   tapped, coords_removed, redo_requested, handled,
                   clear_thread_task>>
    /\ UNCHANGED otherThanStop

\* Phase A finds fort f on top of the location and returns its status.
PhaseAFindsFort(f) ==
    /\ stop_pc = "phase_a"
    /\ LET status == classify_fort(f, current_position, level_mode,
                                   ignore_spinned_stops)
       IN  /\ status # "continue"
           /\ stop_type' = status
           /\ spinnable_data_failcount' =
                IF status \in ResetsFailcount
                THEN 0 ELSE spinnable_data_failcount
    /\ visited_reported' =
         (f.type # 0 /\ f.visited /\ level_mode /\ ignore_spinned_stops)
    /\ stop_pc' = "checked"
    /\ UNCHANGED <<raise_cause, open_caller, recheck_count, type_received, open_to,
                   handle_to, data_received, clear_quest_counter, waits,
                   tapped, coords_removed, redo_requested, handled,
                   clear_thread_task>>
    /\ UNCHANGED otherThanStop

\* while stop_type in (GMO_NOT_AVAILABLE, GMO_EMPTY, NO_FORT)
\*       and not recheck_count > 2
recheck_wanted ==
    /\ stop_type \in {"GMO_NOT_AVAILABLE", "GMO_EMPTY", "NO_FORT"}
    /\ ~(recheck_count > 2)

\* One pass of the recheck loop: the wait for a GMO answers received, and
\* Phase A runs again unless that is UNDEFINED.
RecheckStop(received) ==
    /\ stop_pc = "checked"
    /\ recheck_wanted
    /\ recheck_count' = recheck_count + 1
    /\ type_received' = received
    /\ stop_pc' = IF received # "UNDEFINED" THEN "phase_a" ELSE "checked"
    /\ UNCHANGED <<raise_cause, open_caller, stop_type, open_to, handle_to,
                   data_received,
                   clear_quest_counter, waits, tapped, coords_removed,
                   redo_requested,
                   handled, visited_reported, spinnable_data_failcount,
                   clear_thread_task>>
    /\ UNCHANGED otherThanStop

\* _handle_stop or _post_move_location_routine returns: the locals of
\* _handle_stop are gone.
routine_returns ==
    /\ stop_pc' = "done"
    /\ open_caller' = "post_move"
    /\ handle_to' = 0
    /\ UNCHANGED raise_cause

\* raise InternalStopWorkerException
routine_raises(cause) ==
    /\ stop_pc' = "raised"
    /\ open_caller' = "post_move"
    /\ handle_to' = 0
    /\ raise_cause' = cause

\* `return type_received` of _try_to_open_pokestop, whose locals are gone
\* with it, and what its caller does with the type: for a STOP
\* _post_move_location_routine calls _handle_stop; _handle_stop returns for
\* UNDEFINED and otherwise goes on with its loop, after `to += 1` when it
\* had opened the stop for a retry.
open_returns ==
    /\ open_to' = 0
    /\ recheck_count' = 0
    /\ type_received' = "UNDEFINED"
    /\ CASE open_caller = "post_move" ->
              IF type_received = "STOP"
              THEN /\ stop_pc' = "handle"
                   /\ handled' = TRUE
                   /\ handle_to' = 0
                   /\ data_received' = "UNDEFINED"
                   /\ UNCHANGED <<open_caller, raise_cause>>
              ELSE /\ routine_returns
                   /\ UNCHANGED <<handled, data_received>>
         [] open_caller = "softban" ->
              /\ IF type_received = "UNDEFINED"
                 THEN routine_returns
                 ELSE /\ stop_pc' = "handle"
                      /\ UNCHANGED <<open_caller, handle_to, raise_cause>>
              /\ UNCHANGED <<handled, data_received>>
         [] open_caller = "retry" ->
              /\ IF type_received = "UNDEFINED"
                 THEN routine_returns
                 ELSE /\ stop_pc' = "handle"
                      /\ handle_to' = handle_to + 1
                      /\ UNCHANGED <<open_caller, raise_cause>>
              /\ UNCHANGED <<handled, data_received>>

flags_location_without_stop(position_stop_type) == ~type_contains_stop_at_all(position_stop_type)

\* The location is flagged to the Router when the status has no stop at
\* all and when the stop is a visited one to be ignored.
flags_location(position_stop_type) ==
    \/ ~type_contains_stop_at_all(position_stop_type)
    \/ position_stop_type = "VISITED_STOP_IN_LEVEL_MODE_TO_IGNORE"

\* The statuses with which _try_to_open_pokestop goes on to click the stop.
opens_stop(position_stop_type) ==
    /\ type_contains_stop_at_all(position_stop_type)
    /\ position_stop_type \notin {"STOP_CLOSED", "STOP_COOLDOWN",
                                  "STOP_DISABLED"}
    /\ position_stop_type # "VISITED_STOP_IN_LEVEL_MODE_TO_IGNORE"

\* The recheck loop is over: the branches on stop_type before the open loop.
OpenDecides ==
    /\ stop_pc = "checked"
    /\ ~recheck_wanted
    /\ IF opens_stop(stop_type)
       THEN /\ stop_pc' = "tap"
            /\ UNCHANGED <<raise_cause, coords_removed, handled, handle_to,
                           data_received,
                           open_caller, recheck_count, type_received, open_to>>
       ELSE /\ coords_removed' = (coords_removed \/ flags_location(stop_type))
            /\ open_returns
    /\ UNCHANGED <<stop_type, clear_quest_counter, waits, tapped,
                   visited_reported, spinnable_data_failcount,
                   clear_thread_task, redo_requested>>
    /\ UNCHANGED otherThanStop

click_wanted_four_times == type_received # "STOP" /\ open_to < 4

\* while type_received != LatestReceivedType.STOP and int(to) < 3
click_wanted == type_received # "STOP" /\ open_to < 3

\* One pass of the open loop: the stop is clicked and the wait for its
\* details answers received.
ClickPokestop(received) ==
    /\ stop_pc = "tap"
    /\ click_wanted
    /\ tapped' = TRUE
    /\ type_received' = received
    /\ open_to' = open_to + 1
    /\ UNCHANGED <<raise_cause, stop_pc, open_caller, stop_type,
                   recheck_count, handle_to,
                   data_received, clear_quest_counter, waits, coords_removed,
                   redo_requested,
                   handled, visited_reported, spinnable_data_failcount,
                   clear_thread_task>>
    /\ UNCHANGED otherThanStop

\* The open loop is over.
OpenLoopEnds ==
    /\ stop_pc = "tap"
    /\ ~click_wanted
    /\ open_returns
    /\ UNCHANGED <<stop_type, clear_quest_counter, waits, tapped,
                   coords_removed, redo_requested, visited_reported,
                   spinnable_data_failcount, clear_thread_task>>
    /\ UNCHANGED otherThanStop

\* while data_received != FortSearchResultTypes.QUEST and int(to) < 4
wait_wanted == data_received # "QUEST" /\ handle_to < 4

\* _check_pogo_main_screen and, when the main screen was not reached,
\* _restart_pogo: main_menu and restart_ok are what they return.
restart_failed(main_menu, restart_ok) == ~main_menu /\ ~restart_ok

\* One pass of the loop of _handle_stop begins: the wait for the spin
\* result answers outcome.
spin_result(outcome) ==
    /\ stop_pc = "handle"
    /\ wait_wanted
    /\ waits' = IF waits < MaxWaits THEN waits + 1 ELSE waits
    /\ data_received' = outcome
    /\ UNCHANGED <<tapped, coords_removed, handled,
                   spinnable_data_failcount>>
    /\ UNCHANGED otherThanStop

\* The locals of _try_to_open_pokestop while it is not running.
open_not_called ==
    UNCHANGED <<open_to, type_received, recheck_count, stop_type,
                visited_reported>>

HandleStopInventoryWithoutRedo ==
    /\ spin_result("INVENTORY")
    /\ clear_thread_task' = BOX
    /\ redo_requested' = FALSE
    /\ routine_returns
    /\ open_not_called
    /\ UNCHANGED clear_quest_counter

\* The inventory is full: the box is to be cleared, the Router is asked to
\* offer the stop again (routemanager_redo_stop) and the loop is left.
HandleStopInventory ==
    /\ spin_result("INVENTORY")
    /\ clear_thread_task' = BOX
    /\ redo_requested' = TRUE
    /\ routine_returns
    /\ open_not_called
    /\ UNCHANGED clear_quest_counter

\* A quest, a cooldown or, in level mode, a full quest box. enhanced and
\* always_cleanup are the settings of the worker.
HandleStopQuest(outcome, enhanced, always_cleanup, main_menu, restart_ok) ==
    /\ outcome \in {"QUEST", "COOLDOWN"} \/ (outcome = "FULL" /\ level_mode)
    /\ spin_result(outcome)
    /\ UNCHANGED redo_requested
    /\ open_not_called
    /\ IF level_mode
       THEN /\ routine_returns
            /\ UNCHANGED <<clear_quest_counter, clear_thread_task>>
       ELSE IF outcome = "COOLDOWN"
       THEN /\ clear_thread_task' = QUEST
            /\ routine_returns
            /\ UNCHANGED clear_quest_counter
       ELSE IF enhanced
       THEN /\ stop_pc' = "handle"
            /\ UNCHANGED <<clear_quest_counter, clear_thread_task,
                           open_caller, handle_to, raise_cause>>
       ELSE IF always_cleanup
       THEN /\ UNCHANGED clear_quest_counter
            /\ IF restart_failed(main_menu, restart_ok)
               THEN /\ routine_raises("restart")
                    /\ UNCHANGED clear_thread_task
               ELSE /\ routine_returns
                    /\ clear_thread_task' = QUEST
       ELSE IF clear_quest_counter + 1 # 3
       THEN /\ clear_quest_counter' = clear_quest_counter + 1
            /\ routine_returns
            /\ UNCHANGED clear_thread_task
       ELSE IF restart_failed(main_menu, restart_ok)
       THEN /\ clear_quest_counter' = clear_quest_counter + 1
            /\ routine_raises("restart")
            /\ UNCHANGED clear_thread_task
       ELSE /\ clear_quest_counter' = 0
            /\ routine_returns
            /\ clear_thread_task' = QUEST

\* A time mismatch or a stop out of range: the stop is opened again, and
\* `to` stays as it is.
HandleStopSoftban(outcome) ==
    /\ outcome \in {"TIME", "OUT_OF_RANGE"}
    /\ spin_result(outcome)
    /\ UNCHANGED redo_requested
    /\ try_to_open_pokestop("softban")
    /\ UNCHANGED <<clear_quest_counter, clear_thread_task, handle_to,
                   raise_cause>>

\* Items without a quest outside level mode: the quest box is full.
HandleStopFull(main_menu, restart_ok) ==
    /\ ~level_mode
    /\ spin_result("FULL")
    /\ UNCHANGED redo_requested
    /\ open_not_called
    /\ IF restart_failed(main_menu, restart_ok)
       THEN /\ routine_raises("restart")
            /\ UNCHANGED <<clear_quest_counter, clear_thread_task>>
       ELSE /\ clear_thread_task' = QUEST
            /\ clear_quest_counter' = 0
            /\ routine_returns

\* Any other answer: after three retries a quest that the storage holds
\* (has_quest) ends the loop, otherwise the stop is opened again for a
\* retry.
HandleStopRetry(outcome, enhanced, has_quest) ==
    /\ outcome \in {"None", "LIMIT"}
    /\ spin_result(outcome)
    /\ UNCHANGED redo_requested
    /\ UNCHANGED clear_quest_counter
    /\ IF handle_to > 2 /\ has_quest
       THEN /\ IF ~enhanced
               THEN clear_thread_task' = QUEST
               ELSE UNCHANGED clear_thread_task
            /\ routine_returns
            /\ open_not_called
       ELSE /\ try_to_open_pokestop("retry")
            /\ UNCHANGED <<clear_thread_task, handle_to, raise_cause>>

\* The loop of _handle_stop is over and _handle_stop returns.
HandleStopEnds ==
    /\ stop_pc = "handle"
    /\ ~wait_wanted
    /\ routine_returns
    /\ UNCHANGED <<stop_type, recheck_count, type_received,
                   open_to, data_received, clear_quest_counter,
                   waits, tapped, coords_removed, redo_requested, handled,
                   visited_reported,
                   spinnable_data_failcount, clear_thread_task>>
    /\ UNCHANGED otherThanStop

NextStop ==
    \/ \E position_known, init \in BOOLEAN :
         StopRoutineBegins(position_known, init)
    \/ \E status \in {"GMO_NOT_AVAILABLE", "GMO_EMPTY", "NO_FORT"} :
         \E restart_ok \in BOOLEAN : PhaseAFails(status, restart_ok)
    \/ \E f \in FortsOnTop : PhaseAFindsFort(f)
    \/ \E received \in GmoReceived : RecheckStop(received)
    \/ OpenDecides
    \/ \E received \in DetailsReceived : ClickPokestop(received)
    \/ OpenLoopEnds
    \/ HandleStopInventory
    \/ \E outcome \in SearchReceived :
         \E enhanced, always_cleanup, main_menu, restart_ok \in BOOLEAN :
           HandleStopQuest(outcome, enhanced, always_cleanup, main_menu,
                           restart_ok)
    \/ \E outcome \in SearchReceived : HandleStopSoftban(outcome)
    \/ \E main_menu, restart_ok \in BOOLEAN :
         HandleStopFull(main_menu, restart_ok)
    \/ \E outcome \in SearchReceived :
         \E enhanced, has_quest \in BOOLEAN :
           HandleStopRetry(outcome, enhanced, has_quest)
    \/ HandleStopEnds

(***************************************************************************)
(* _check_for_data_content                                                 *)
(***************************************************************************)
\* The last second of the clock.
MaxDataClock == 2

\* The protos whose entries _check_for_data_content reads when it waits for
\* the details of a stop or for the result of a spin.
DataProtos == {"GYM_INFO", "ENCOUNTER", "FORT_DETAILS", "FORT_SEARCH"}

\* The protos whose awaited timestamp is replaced.
StopProtos == {"FORT_SEARCH", "FORT_DETAILS"}

\* The timestamp of a proto that is not in latest.
Absent == -1

max2(a, b) == IF a >= b THEN a ELSE b

\* replacement = max(self._latest_quest, LAST_CLEANUP_TIME,
\*                   LAST_QUESTCLEAR_TIME)
replacement(quest, cleanup, questclear) ==
    max2(quest, max2(cleanup, questclear))

\* What _check_for_data_content returns for the entries of latest, the
\* proto waited for and the timestamp of the action: the type found and the
\* proto whose entry decided it. content is the type that the payload of
\* the entry of the proto waited for stands for (UNDEFINED without values
\* or payload).
check_for_data_content(entries, proto, timestamp, replaced, content) ==
    IF entries["GYM_INFO"] # Absent /\ entries["GYM_INFO"] >= timestamp
    THEN [type |-> "GYM", entry |-> "GYM_INFO"]
    ELSE IF entries["ENCOUNTER"] # Absent /\ entries["ENCOUNTER"] >= timestamp
    THEN [type |-> "MON", entry |-> "ENCOUNTER"]
    ELSE IF entries[proto] = Absent
    THEN [type |-> "UNDEFINED", entry |-> proto]
    ELSE IF entries[proto] < (IF proto \in StopProtos THEN replaced
                              ELSE timestamp)
    THEN [type |-> "UNDEFINED", entry |-> proto]
    ELSE [type |-> content, entry |-> proto]

\* The types the payload of an entry of a proto can stand for.
Contents(proto) ==
    IF proto = "FORT_DETAILS" THEN {"UNDEFINED", "GYM", "STOP"}
    ELSE {"UNDEFINED", "FORT_SEARCH_RESULT"}

InitData ==
    /\ data_clock = 0
    /\ latest_ts = [proto \in DataProtos |-> Absent]
    /\ stop_process_time = 0
    /\ latest_quest = 0
    /\ last_cleanup_time = 0
    /\ last_questclear_time = 0
    /\ found = "none"
    /\ accepted_ts = Absent

\* A second passes.
DataTick ==
    /\ data_clock < MaxDataClock
    /\ data_clock' = data_clock + 1
    /\ UNCHANGED <<latest_ts, stop_process_time, latest_quest,
                   last_cleanup_time, last_questclear_time, found,
                   accepted_ts>>
    /\ UNCHANGED otherThanData

\* The device sends a proto: its entry in latest carries the time of its
\* reception.
ProtoReceived(proto) ==
    /\ latest_ts' = [latest_ts EXCEPT ![proto] = data_clock]
    /\ UNCHANGED <<data_clock, stop_process_time, latest_quest,
                   last_cleanup_time, last_questclear_time, found,
                   accepted_ts>>
    /\ UNCHANGED otherThanData

\* self._stop_process_time = math.floor(time.time()), before the stop is
\* clicked or opened again.
SetStopProcessTime ==
    /\ stop_process_time' = data_clock
    /\ found' = "none"
    /\ accepted_ts' = Absent
    /\ UNCHANGED <<data_clock, latest_ts, latest_quest, last_cleanup_time,
                   last_questclear_time>>
    /\ UNCHANGED otherThanData

\* self._latest_quest = math.floor(time.time()) of _handle_stop.
QuestSaved ==
    /\ latest_quest' = data_clock
    /\ UNCHANGED <<data_clock, latest_ts, stop_process_time,
                   last_cleanup_time, last_questclear_time, found,
                   accepted_ts>>
    /\ UNCHANGED otherThanData

\* clear_box sets LAST_CLEANUP_TIME after it has deleted items.
BoxCleared ==
    /\ last_cleanup_time' = data_clock
    /\ UNCHANGED <<data_clock, latest_ts, stop_process_time, latest_quest,
                   last_questclear_time, found, accepted_ts>>
    /\ UNCHANGED otherThanData

\* _wait_for_data(timestamp=self._stop_process_time, proto_to_wait_for=proto)
\* looks at latest with _check_for_data_content.
CheckForDataContent(proto, content) ==
    /\ content \in Contents(proto)
    /\ LET replaced == replacement(latest_quest, last_cleanup_time,
                                   last_questclear_time)
           result == check_for_data_content(latest_ts, proto,
                                            stop_process_time, replaced,
                                            content)
       IN  /\ found' = result.type
           /\ accepted_ts' = IF result.type = "UNDEFINED" THEN Absent
                             ELSE latest_ts[result.entry]
    /\ UNCHANGED <<data_clock, latest_ts, stop_process_time, latest_quest,
                   last_cleanup_time, last_questclear_time>>
    /\ UNCHANGED otherThanData

NextData ==
    \/ DataTick
    \/ \E proto \in DataProtos : ProtoReceived(proto)
    \/ SetStopProcessTime
    \/ QuestSaved
    \/ BoxCleared
    \/ \E proto \in StopProtos :
         \E content \in Contents(proto) : CheckForDataContent(proto, content)

(***************************************************************************)
(* _move_to_location                                                       *)
(***************************************************************************)
\* The longest delay after a teleport or a walk that the settings give, and
\* the longest time since the last action.
MaxDelay == 2
MaxTimediff == 3

\* if self._init: delay_used = 5
InitModeDelay == 5

\* 'Starting first time - we wait because of some default pogo delays ...'
FirstStartDelay == 20

\* Location(0.0, 0.0)
ZeroLocation == [lat |-> 0, lng |-> 0]

\* The locations of the route.
RouteLocations == {[lat |-> 0, lng |-> 1], [lat |-> 1, lng |-> 1]}

\* The settings of the area: the speed in km/h, and the maximum distance
\* (0: none is set).
Speeds == {0, 4}
MaxDistances == {0, 2, 3}
Distances == {1, 3}

is_zero_either(location) == location.lat = 0 \/ location.lng = 0

\* self.last_location.lat == 0.0 and self.last_location.lng == 0.0
is_zero(location) == location.lat = 0 /\ location.lng = 0

\* The condition of the teleport branch.
teleports(speed, max_distance, distance, last) ==
    \/ speed = 0
    \/ (max_distance # 0 /\ 0 < max_distance /\ max_distance < distance)
    \/ is_zero(last)

\* What a walk after the teleport takes off the delay, (to_walk / 3.05) - 1:
\* nothing without such a walk.
WalkReductions == {0, 1, MaxDelay + 1}

\* if delay_used < 0: delay_used = 0
clamp_delay(delay) == IF delay < 0 THEN 0 ELSE delay

\* The delay after the walk after the teleport.
delay_after_walk(base, reduction) ==
    IF reduction = 0 THEN base ELSE clamp_delay(base - reduction)

\* The delay with the time since the last action taken off: timediff is
\* that time, or -1 when no LAST_ACTION_TIME is set.
delay_after_last_action(delay, timediff, level) ==
    IF timediff # -1 THEN delay - timediff
    ELSE IF ~level THEN FirstStartDelay
    ELSE -1

\* The waiting times from which the account is switched
\* (self._rotation_waittime), and NoRotation when the account cannot be
\* switched (no screen detection, one account, or no rotation set).
NoRotation == -1
RotationWaittimes == {0, 1}

\* The delay budget of the move: lines 191-223.
delay_budget(base, reduction, init, timediff, level, waittime) ==
    LET walked == delay_after_walk(base, reduction)
        started == IF init THEN InitModeDelay ELSE walked
        acted == delay_after_last_action(started, timediff, level)
    IN  IF waittime # NoRotation /\ acted >= waittime /\ ~level
        THEN -1 ELSE acted

InitMove ==
    /\ move_pc = "idle"
    /\ last_location = ZeroLocation
    /\ target_location = ZeroLocation
    /\ area_speed \in Speeds
    /\ area_max_distance \in MaxDistances
    /\ move_distance = 0
    /\ move_command = "none"
    /\ walk_speed = 0
    /\ delay_used = 0
    /\ current_sleep_time = 0
    /\ elapsed = 0
    /\ slept = 0
    /\ routemanager_present = TRUE

\* _move_to_location up to the sleep loop: the device is moved to target,
\* which is distance away, by a teleport (set_location) or by a walk
\* (_walk_to_location with the speed of the area), and the delay budget is
\* computed. The cleanup of the box that a long delay asks for is in
\* MoveCommand and MoveSleep.
MoveBegins(target, distance, base, reduction, init, timediff, waittime) ==
    /\ move_pc \in {"idle", "done"}
    /\ target_location' = target
    /\ move_distance' = distance
    /\ IF teleports(area_speed, area_max_distance, distance, last_location)
       THEN move_command' = "set_location" /\ walk_speed' = 0
       ELSE move_command' = "walk" /\ walk_speed' = area_speed
    /\ LET budget == delay_budget(base, reduction, init, timediff, level_mode,
                                  waittime)
       IN  /\ delay_used' = budget
           /\ current_sleep_time' = IF budget < 0 THEN 0 ELSE budget
           /\ move_pc' = IF budget < 0 THEN "slept" ELSE "sleep"
    /\ elapsed' = 0
    /\ slept' = 0
    /\ UNCHANGED <<last_location, area_speed, area_max_distance,
                   routemanager_present, stop_worker_event>>
    /\ UNCHANGED otherThanMove

\* while time.time() <= int(cur_time) + int(delay_used)
sleep_wanted == elapsed <= delay_used

killed_never == FALSE

\* if not routemanager_present(...) or self._stop_worker_event.is_set()
killed == ~routemanager_present \/ stop_worker_event

\* One pass of the sleep loop: the worker raises when it was killed, and
\* sleeps a second otherwise.
MoveSleeps ==
    /\ move_pc = "sleep"
    /\ sleep_wanted
    /\ IF killed
       THEN /\ current_sleep_time' = 0
            /\ move_pc' = "raised"
            /\ UNCHANGED <<elapsed, slept>>
       ELSE /\ elapsed' = elapsed + 1
            /\ slept' = slept + 1
            /\ UNCHANGED <<current_sleep_time, move_pc>>
    /\ UNCHANGED <<last_location, target_location, area_speed,
                   area_max_distance, move_distance, move_command,
                   walk_speed, delay_used, routemanager_present,
                   stop_worker_event>>
    /\ UNCHANGED otherThanMove

\* The sleep loop is over.
MoveSleepEnds ==
    /\ move_pc = "sleep"
    /\ ~sleep_wanted
    /\ move_pc' = "slept"
    /\ UNCHANGED <<last_location, target_location, area_speed,
                   area_max_distance, move_distance, move_command,
                   walk_speed, delay_used, current_sleep_time, elapsed,
                   slept, routemanager_present, stop_worker_event>>
    /\ UNCHANGED otherThanMove

\* The last lines: the location is recorded as the last location, and the
\* move returns, which ends its locals and the history of this move.
MoveEnds ==
    /\ move_pc = "slept"
    /\ current_sleep_time' = 0
    /\ last_location' = target_location
    /\ move_pc' = "done"
    /\ move_distance' = 0
    /\ move_command' = "none"
    /\ walk_speed' = 0
    /\ delay_used' = 0
    /\ elapsed' = 0
    /\ slept' = 0
    /\ UNCHANGED <<target_location, area_speed, area_max_distance,
                   routemanager_present, stop_worker_event>>
    /\ UNCHANGED otherThanMove

\* The stop flag is set while the worker moves or sleeps.
MoveStopSignal ==
    /\ move_pc \in {"idle", "sleep", "done"}
    /\ ~stop_worker_event
    /\ stop_worker_event' = TRUE
    /\ UNCHANGED moveVars
    /\ UNCHANGED otherThanMove

\* The route manager is removed while the worker moves or sleeps.
RouteManagerRemoved ==
    /\ move_pc \in {"idle", "sleep", "done"}
    /\ routemanager_present
    /\ routemanager_present' = FALSE
    /\ UNCHANGED <<move_pc, last_location, target_location, area_speed,
                   area_max_distance, move_distance, move_command,
                   walk_speed, delay_used, current_sleep_time, elapsed,
                   slept, stop_worker_event>>
    /\ UNCHANGED otherThanMove

NextMove ==
    \/ \E target \in RouteLocations, distance \in Distances :
         \E base \in 0..MaxDelay, reduction \in WalkReductions :
           \E init \in BOOLEAN, timediff \in -1..MaxTimediff :
             \E waittime \in {NoRotation} \cup RotationWaittimes :
               MoveBegins(target, distance, base, reduction, init, timediff,
                          waittime)
    \/ MoveSleeps
    \/ MoveSleepEnds
    \/ MoveEnds
    \/ MoveStopSignal
    \/ RouteManagerRemoved

(***************************************************************************)
(* Specifications                                                          *)
(***************************************************************************)
\* The state of a component that a specification leaves alone.
IdleComm == InitComm
IdleOk == ok_reply = NoReply /\ ok_result = "pending"
IdlePlayer == InitPlayer
IdleLoop ==
    /\ InitLoop
    /\ walker = [algo_type |-> "unknown", algo_value |-> EmptyValue,
                 eventid |-> NoEvent]
    /\ current_event = 1

IdleQuest == InitQuest /\ level_mode = FALSE
IdleScreen ==
    InitScreen /\ clear_game_data = FALSE /\ reboot_setting = TRUE
IdlePhaseA == InitPhaseA /\ ignore_spinned_stops = FALSE
IdleStop == InitStop
IdleData == InitData
IdleMove == InitMove /\ area_speed = 0 /\ area_max_distance = 0

InitSpecComm == InitComm /\ IdleOk /\ IdlePlayer /\ IdleLoop /\ IdleQuest /\ IdleScreen
    /\ IdlePhaseA /\ IdleStop /\ IdleData
    /\ IdleMove
InitSpecOk == InitOk /\ IdleComm /\ IdlePlayer /\ IdleLoop /\ IdleQuest /\ IdleScreen
    /\ IdlePhaseA /\ IdleStop /\ IdleData
    /\ IdleMove
InitSpecPlayer == InitPlayer /\ IdleComm /\ IdleOk /\ IdleLoop /\ IdleQuest /\ IdleScreen
    /\ IdlePhaseA /\ IdleStop /\ IdleData
    /\ IdleMove
InitSpecLoop == InitLoop /\ IdleComm /\ IdleOk /\ IdlePlayer /\ IdleQuest /\ IdleScreen
    /\ IdlePhaseA /\ IdleStop /\ IdleData
    /\ IdleMove
InitSpecQuest == InitQuest /\ IdleComm /\ IdleOk /\ IdlePlayer /\ IdleLoop /\ IdleScreen
    /\ IdlePhaseA /\ IdleStop /\ IdleData
    /\ IdleMove

SpecComm == InitSpecComm /\ [][NextComm]_vars

SpecOk == InitSpecOk /\ [][NextOk]_vars

SpecPlayer == InitSpecPlayer /\ [][NextPlayer]_vars

SpecLoop == InitSpecLoop /\ [][NextLoop]_vars

SpecQuest == InitSpecQuest /\ [][NextQuest]_vars

InitSpecScreen ==
    InitScreen /\ IdleComm /\ IdleOk /\ IdlePlayer /\ IdleLoop /\ IdleQuest
    /\ IdlePhaseA /\ IdleStop /\ IdleData
    /\ IdleMove

SpecScreen == InitSpecScreen /\ [][NextScreen]_vars

\* The loop of _ensure_pogo_topmost goes on as long as it can: an awaited
\* classification or remedy ends and the next statement runs.
SpecScreenFair == SpecScreen /\ WF_vars(EnsureStep)

\* Phase A in either mode of the worker; the rest of the worker is at rest.
InitSpecPhaseA ==
    /\ InitPhaseA /\ InitQuest
    /\ IdleComm /\ IdleOk /\ IdlePlayer /\ IdleLoop /\ IdleScreen /\ IdleStop /\ IdleData
    /\ IdleMove

SpecPhaseA == InitSpecPhaseA /\ [][NextPhaseA]_vars

\* The stop routine of one location after another, in either mode of the
\* worker, with the device at a location of the route. Visited stops are
\* ignored in level mode only, so the setting varies there only.
InitSpecStop ==
    /\ InitStop /\ InitQuest
    /\ pa_pc = "idle"
    /\ current_position \in Locations
    /\ ignore_spinned_stops \in BOOLEAN
    /\ ignore_spinned_stops => level_mode
    /\ spinnable_data_failcount = 0
    /\ fort = NoFort
    /\ fort_status = "none"
    /\ position_type = "none"
    /\ data_failure = "none"
    /\ IdleComm /\ IdleOk /\ IdlePlayer /\ IdleLoop /\ IdleScreen /\ IdleData
    /\ IdleMove

SpecStop == InitSpecStop /\ [][NextStop]_vars

InitSpecData ==
    /\ InitData /\ IdleComm /\ IdleOk /\ IdlePlayer /\ IdleLoop /\ IdleQuest
    /\ IdleScreen /\ IdlePhaseA /\ IdleStop /\ IdleMove

SpecData == InitSpecData /\ [][NextData]_vars

\* The moves of the worker, one location after another, in either mode.
InitSpecMove ==
    /\ InitMove /\ InitQuest
    /\ IdleComm /\ IdleOk /\ IdlePlayer /\ IdleLoop /\ IdleScreen /\ IdlePhaseA
    /\ IdleStop /\ IdleData

SpecMove == InitSpecMove /\ [][NextMove]_vars

(***************************************************************************)
(* Claims about the Communicator                                           *)
(***************************************************************************)
TimeoutError == "WebsocketWorkerTimeoutException"

\* The timeout a caller asked for: its argument, or the command timeout of
\* the Communicator when it gave none.
Requested(c) == IF ctimeout[c] = NoTimeout THEN command_timeout ELSE ctimeout[c]

\* C1: on one Communicator at most one command is in flight (sent, reply
\* still awaited) at any time, whatever operations the callers use,
\* passthrough included.
C1_AtMostOneInFlight == Cardinality(InFlight) <= 1

\* C2: a caller whose reply does not arrive within the timeout while it
\* holds the send mutex gets the timeout error (the error is due as soon as
\* the timeout is used up) and does not hold the mutex afterwards: the mutex
\* is free or already with the next caller, and when it is free the first
\* waiter, or else any idle caller, can take it and send.
C2_TimeoutReleasesMutex ==
    \A c \in Callers :
        /\ (cpc[c] = "in_flight" /\ cop[c] \in GuardedOps
                /\ ctimer[c] >= Requested(c))
              => ENABLED ReplyTimeout(c)
        /\ (cpc[c] = "done" /\ cret[c] = TimeoutError /\ cop[c] \in GuardedOps)
              => /\ send_mutex # c
                 /\ send_mutex = NoCaller =>
                      IF lockQueue # <<>>
                      THEN ENABLED AcquireMutex(Head(lockQueue))
                      ELSE \A d \in Callers :
                             cpc[d] = "idle" =>
                               ENABLED CallGuardedFree(d, "run_and_ok_bytes", command_timeout)

\* C2 witness: a guarded command has timed out and, before its caller has
\* gone on, another caller holds the mutex with its command in flight.
C2_Witness ==
    \E c, d \in Callers :
        /\ c # d
        /\ cpc[c] = "done" /\ cret[c] = TimeoutError /\ cop[c] \in GuardedOps
        /\ cpc[d] = "in_flight" /\ send_mutex = d

\* C3 as claimed: a caller waiting for the send mutex stops waiting once its
\* own timeout has expired.
C3_LockWaitBoundedByOwnTimeout ==
    \A c \in Callers : cpc[c] = "wait_lock" => ctimer[c] <= Requested(c)

\* C3 as amended: the wait for the send mutex has no timeout, a waiter leaves
\* it only by taking the released mutex and sending; the reply wait that
\* follows is bounded by the caller's own timeout.
C3_ReplyWaitBoundedByOwnTimeout ==
    /\ [](\A c \in Callers : cpc[c] = "in_flight" => ctimer[c] <= Requested(c))
    /\ [][\A c \in Callers :
            (cpc[c] = "wait_lock" /\ cpc'[c] # "wait_lock")
               => (send_mutex = NoCaller /\ send_mutex' = c
                     /\ cpc'[c] = "in_flight")]_vars

\* C3 witness: a caller still waits for the mutex after more time than its
\* own timeout, behind a holder whose reply wait has reached its limit.
C3_Witness ==
    \E c, d \in Callers :
        /\ cpc[c] = "wait_lock" /\ ctimer[c] > Requested(c)
        /\ cpc[d] = "in_flight" /\ send_mutex = d /\ ctimer[d] = Requested(d)

\* The texts that are "OK" with whitespace around it.
IsOkText(r) ==
    /\ r # NoReply
    /\ \E a \in 0..Len(r) :
         /\ a + 2 <= Len(r)
         /\ \A k \in 1..a : r[k] \in Whitespace
         /\ r[a + 1] = "O" /\ r[a + 2] = "K"
         /\ \A k \in (a + 3)..Len(r) : r[k] \in Whitespace

\* C4: a boolean-acknowledge command returns true iff the reply is present
\* and is "OK" once the whitespace around it is trimmed.
C4_TrueIffTrimmedOK ==
    ok_result # "pending" => (ok_result = "true" <=> IsOkText(ok_reply))

\* C4 witness: a reply with whitespace on both sides of OK was acknowledged.
C4_Witness ==
    /\ ok_result = "true"
    /\ Len(ok_reply) = 4
    /\ ok_reply[1] \in Whitespace /\ ok_reply[4] \in Whitespace

(***************************************************************************)
(* Claims about PlayerData                                                 *)
(***************************************************************************)
\* C5: after any sequence of writes, reading a kind returns the payload of
\* the most recent write to that kind (and nothing before the first one),
\* whatever was written to other kinds in between.
C5_ReadReturnsLatestWrite ==
    \A k \in Kinds :
        IF lastWritten[k].present
        THEN /\ get_specific_latest_data(k).present
             /\ get_specific_latest_data(k).value = lastWritten[k].value
        ELSE ~get_specific_latest_data(k).present

\* C5 witness: map objects were written more than once and the latest write
\* went to another kind.
C5_Witness ==
    /\ GMO \in overwritten
    /\ lastKey # GMO
    /\ get_specific_latest_data(GMO).present

\* C6: after a map-objects write that shares a cell with the map-objects
\* write before it, "last possibly moved" is the receipt timestamp of that
\* write.
C6_SharedCellsSetLastPossiblyMoved ==
    gmoShared => get_last_possibly_moved = gmoTs

(***************************************************************************)
(* Claims about check_walker and the control loop                          *)
(***************************************************************************)
\* A step in which check_walker returns to the loop.
RoundEvaluated ==
    /\ pc = "walker" /\ pc' # "walker"
    /\ walker.algo_type = "round" /\ walker.algo_value.kind = "number"

CountdownEvaluated ==
    /\ pc = "walker" /\ pc' # "walker"
    /\ walker.algo_type = "countdown" /\ walker.algo_value.kind = "number"
    /\ walker.algo_value.n > 0

SignalsContinue == pc' = "health" /\ ~walker_stop'
SignalsStop == pc' = "cleanup" /\ walker_stop' /\ finished'

\* C7 as claimed: in mode round with maximum N check_walker signals continue
\* while the router reports fewer than N rounds and stop when it reports N or
\* more.
C7_RoundStopsOnlyAtMax ==
    [][RoundEvaluated =>
         /\ rounds < walker.algo_value.n => SignalsContinue
         /\ rounds >= walker.algo_value.n => SignalsStop]_vars

\* C7 as amended: that holds for a walker bound to no event or to the current
\* one; once another event has started check_walker signals stop whatever the
\* rounds. A walker that stops for its rounds stops at exactly N rounds.
C7_RoundStopsAtMaxUnlessEventOver ==
    [][RoundEvaluated =>
         IF OtherEventStarted(walker, current_event)
         THEN SignalsStop
         ELSE /\ rounds < walker.algo_value.n => SignalsContinue
              /\ rounds >= walker.algo_value.n => SignalsStop
              /\ SignalsStop => rounds = walker.algo_value.n]_vars

\* C7 witness: a walker of mode round with maximum 3 was stopped by the
\* policy after exactly 3 rounds.
C7_Witness ==
    /\ walker.algo_type = "round" /\ walker.algo_value = AlgoValue("number", 3)
    /\ ~OtherEventStarted(walker, current_event)
    /\ walker_stop /\ rounds = 3

\* C8 as claimed: in mode countdown with duration D > 0 check_walker signals
\* stop at no clock value below start + D and at every one from start + D on,
\* start being the clock of the first evaluation.
C8_CountdownStopsOnlyAtEnd ==
    [][CountdownEvaluated =>
         /\ SignalsStop => clock >= first_eval' + walker.algo_value.n
         /\ clock >= first_eval' + walker.algo_value.n => SignalsStop]_vars

\* C8 as amended: that holds for a walker bound to no event or to the current
\* one; once another event has started check_walker signals stop whatever the
\* clock.
C8_CountdownStopsAtEndUnlessEventOver ==
    [][CountdownEvaluated =>
         IF OtherEventStarted(walker, current_event)
         THEN SignalsStop
         ELSE /\ SignalsStop => clock >= first_eval' + walker.algo_value.n
              /\ clock >= first_eval' + walker.algo_value.n => SignalsStop
              /\ SignalsContinue \/ SignalsStop]_vars

\* C8 witness: a countdown of 2 was stopped by the policy, 2 or more time
\* units after its first evaluation.
C8_Witness ==
    /\ walker.algo_type = "countdown" /\ walker.algo_value = AlgoValue("number", 2)
    /\ ~OtherEventStarted(walker, current_event)
    /\ walker_stop /\ first_eval # NoStart /\ clock >= first_eval + 2

\* C9: the walker policy is the first thing of every iteration, before the
\* health check and before a location is requested; when it signals stop the
\* FINISHED flag is set, no phase runs after it (no location is requested, no
\* move is issued) and cleanup runs before the thread returns.
C9_WalkerFirstAndStopFinishes ==
    /\ iteration # <<>> => iteration[1] = "walker"
    /\ pc \in {"health", "grab", "valid", "pre_move", "move", "post_move"}
          => iteration # <<>>
    /\ walker_stop =>
          /\ finished
          /\ pc \in {"cleanup", "returned"}
          /\ ~ran_after_stop
          /\ pc = "returned" => cleanup_count = 1

\* C9 witness: the policy stopped the loop after at least one full round of
\* iterations and the thread has returned through cleanup.
C9_Witness ==
    /\ walker_stop /\ finished /\ pc = "returned" /\ cleanup_count = 1
    /\ walker.algo_type = "round" /\ rounds >= 1

\* C10: once a phase has raised a typed stop condition no later phase runs,
\* and _internal_cleanup has run exactly once when the thread has returned
\* (and never more than once).
C10_TypedStopLeadsToOneCleanup ==
    /\ cleanup_count <= 1
    /\ raised # "none" =>
          /\ ~ran_after_stop
          /\ pc \in {"max_walkers", "loop_head", "cleanup", "returned"}
          /\ pc = "returned" => cleanup_count = 1

\* C10 witness: the move phase raised a connection timeout in an iteration
\* and the thread has returned after one cleanup.
C10_Witness ==
    /\ raised = "WebsocketWorkerTimeoutException"
    /\ iteration # <<>> /\ iteration[Len(iteration)] = "move"
    /\ pc = "returned" /\ cleanup_count = 1

\* C11 as claimed: when a phase of the control loop raises an exception that
\* is none of the typed stop conditions (a storage failure), _internal_cleanup
\* has run, with the stop flag set, before _main_work_thread ends.
C11_FailureReachesCleanup ==
    (failure /\ pc = "returned") => (cleanup_count = 1 /\ stop_worker_event)

PhaseOrder ==
    <<"walker", "health", "grab", "valid", "pre_move", "move", "post_move">>

\* C12: the phases run so far in an iteration are the first ones of walker
\* check, health check, acquire-location, validate-location, pre-move, move,
\* post-move, in that order; post-move is entered only with the location
\* reported as processed; once a phase has stopped the loop (the thread is at
\* cleanup or has returned) no phase runs any more, and after cleanup the
\* thread has returned for good.
C12_PhasesInOrder ==
    /\ [](/\ Len(iteration) <= Len(PhaseOrder)
          /\ \A i \in 1..Len(iteration) : iteration[i] = PhaseOrder[i]
          /\ pc = "post_move" => process_location
          /\ cleanup_count > 0 => pc = "returned")
    /\ [][/\ pc \in {"cleanup", "returned"} =>
                (iteration' = iteration /\ pc' \in {"cleanup", "returned"})
          /\ iteration' # iteration =>
                \/ iteration' = <<>>
                \/ /\ Len(iteration') = Len(iteration) + 1
                   /\ pc = iteration'[Len(iteration')]
          /\ (pc = "move" /\ pc' = "post_move") => process_location'
          /\ cleanup_count' # cleanup_count => pc = "cleanup"]_vars

\* C12 witness: a full iteration has run through post-move and the loop is
\* back at its head.
C12_Witness ==
    /\ pc = "loop_head"
    /\ iteration = PhaseOrder
    /\ process_location

\* C13 as claimed: once the stop flag is set the control loop unwinds to
\* _internal_cleanup: a thread that has ended with the flag set, after running
\* phases of the loop, has run the cleanup.
C13_StopUnwindsToCleanup ==
    (stop_worker_event /\ pc = "returned" /\ iteration # <<>>)
        => cleanup_count = 1

(***************************************************************************)
(* Claims about the work mutex and the background task                     *)
(***************************************************************************)
\* C14 as claimed: every device command of the control loop and of the
\* background task is issued while its issuer holds the work mutex, so no
\* command of the control loop is issued while the background task holds it.
C14_CommandsUnderWorkMutex ==
    /\ last_command.by # "none" => last_command.holder = last_command.by
    /\ last_command.by = "main" => last_command.holder # "clear"

\* C15 as claimed: outside level mode and while the worker is not stopped,
\* the task flag is back at IDLE only when the cleanup of every request
\* written to it has been started since the request was written.
C15_NoRequestLost ==
    (clear_thread_task = IDLE /\ ~level_mode /\ ~stop_worker_event)
        => pending = {}

(***************************************************************************)
(* Claims about screen recovery                                            *)
(***************************************************************************)
\* C16: _ensure_pogo_topmost returns success iff the last classification it
\* obtained is POGO or QUEST; leaving the loop in any other way (disabled,
\* reboot, restart, escalation, frozen screen, stop flag, also before any
\* classification) returns failure.
C16_SuccessIffGoodScreen ==
    screen_pc = "done" =>
        /\ screen_ret \in {"true", "false"}
        /\ screen_ret = "true"
              <=> (n_classified > 0 /\ last_classified \in GoodScreens)
        /\ screen_ret = "true" <=> leave = "good"

\* C16 witness: a call has failed on the disabled state and a call has
\* succeeded after a classification that was not good.
C16_Witness ==
    /\ screen_pc = "done"
    /\ \/ screen_ret = "false" /\ leave = "disabled"
       \/ screen_ret = "true" /\ n_classified > 1

\* C17: with all counters initial and the classifier answering CLOSE every
\* time, the login escalation (stop the app, clear its cache, reboot) is not
\* issued after the 1st CLOSE, is issued after the 2nd, and no 3rd
\* classification takes place in the call.
C17_RestartAfterSecondClose ==
    (fresh /\ all_close /\ screen_pc \in {"loop", "done"}) =>
        /\ n_classified <= 2
        /\ n_classified <= 1 => escalated_at = 0
        /\ n_classified = 1 => loginerrorcounter = 1
        /\ n_classified = 2 =>
              /\ escalated_at = 2
              /\ leave = "login"
              /\ screen_pc = "done"

\* C17 witness: the call with initial counters has ended after two CLOSE
\* classifications with the escalation.
C17_Witness ==
    /\ fresh /\ all_close
    /\ n_classified = 2 /\ last_classified = "CLOSE"
    /\ escalated_at = 2 /\ screen_pc = "done" /\ screen_ret = "false"

\* C18 as claimed: whatever the classifier answers, a call of
\* _ensure_pogo_topmost comes to an end.
C18_ScreenRecoveryTerminates ==
    (screen_pc = "loop") ~> (screen_pc # "loop")

(***************************************************************************)
(* Claims about Phase A                                                    *)
(***************************************************************************)
\* The distances the on-top test compares, for the fort examined last.
LatDistance == abs(current_position.lat - fort.latitude)
LngDistance == abs(current_position.lng - fort.longitude)

\* The fort examined last was selected: the loop did not go on to the next
\* fort, Phase A returned a status for this one.
Selected == fort_status \notin {"none", "continue"}

\* C19 as claimed: a candidate with cooldown_ms = 5000 is never classified
\* spinnable and is always classified on-cooldown, wherever it lies and
\* whatever its other fields are.
C19_CooldownAlwaysOnCooldown ==
    (fort_status # "none" /\ fort.cooldown_complete_ms = 5000)
        => fort_status = "STOP_COOLDOWN"

\* C19 as amended: a candidate with cooldown_ms = 5000 is never classified
\* spinnable, and Phase A does not return spinnable for it; it is
\* classified on-cooldown exactly when it is selected (both coordinates
\* non-zero and within the epsilon), is a stop and not a gym, is not ignored
\* as visited in level mode, is enabled and is not closed. In every other
\* case an earlier test decides: the candidate is passed over, or reported
\* as gym, ignorable, disabled or closed.
C19_CooldownNeverSpinnable ==
    (fort_status # "none" /\ fort.cooldown_complete_ms = 5000)
        => /\ fort_status # "SPINNABLE_STOP"
           /\ position_type # "SPINNABLE_STOP"
           /\ fort_status = "STOP_COOLDOWN"
                <=> /\ fort.latitude # 0 /\ fort.longitude # 0
                    /\ LatDistance <= DISTANCE_TO_STOP_TO_CONSIDER_ON_TOP
                    /\ LngDistance <= DISTANCE_TO_STOP_TO_CONSIDER_ON_TOP
                    /\ fort.type # 0
                    /\ ~(level_mode /\ ignore_spinned_stops /\ fort.visited)
                    /\ fort.enabled
                    /\ ~fort.closed
           /\ fort_status = "STOP_COOLDOWN"
                => (pa_pc = "done" /\ position_type = "STOP_COOLDOWN")

\* C19 witness: Phase A has returned on-cooldown for a candidate with
\* cooldown_ms = 5000 that lies at exactly the epsilon in both coordinates.
C19_Witness ==
    /\ pa_pc = "done"
    /\ position_type = "STOP_COOLDOWN"
    /\ fort.cooldown_complete_ms = 5000
    /\ LatDistance = DISTANCE_TO_STOP_TO_CONSIDER_ON_TOP
    /\ LngDistance = DISTANCE_TO_STOP_TO_CONSIDER_ON_TOP

\* C20 as claimed: a candidate whose latitude and longitude each differ from
\* the current location by exactly the epsilon is selected, and a candidate
\* whose difference in latitude or in longitude is one unit above the
\* epsilon is not selected.
C20_BoundaryInclusive ==
    fort_status # "none"
        => /\ (/\ LatDistance = DISTANCE_TO_STOP_TO_CONSIDER_ON_TOP
               /\ LngDistance = DISTANCE_TO_STOP_TO_CONSIDER_ON_TOP)
                 => Selected
           /\ (\/ LatDistance = DISTANCE_TO_STOP_TO_CONSIDER_ON_TOP + 1
               \/ LngDistance = DISTANCE_TO_STOP_TO_CONSIDER_ON_TOP + 1)
                 => ~Selected

\* C20 as amended: among the candidates with a non-zero latitude and a
\* non-zero longitude the on-top test is inclusive at the boundary: a
\* difference of exactly the epsilon in both coordinates selects the
\* candidate, a difference of one unit above the epsilon in latitude or in
\* longitude does not. A candidate whose latitude or longitude is 0.0 is
\* never selected, whatever its distance.
C20_BoundaryInclusiveUnlessZero ==
    fort_status # "none"
        => /\ (/\ fort.latitude # 0 /\ fort.longitude # 0
               /\ LatDistance = DISTANCE_TO_STOP_TO_CONSIDER_ON_TOP
               /\ LngDistance = DISTANCE_TO_STOP_TO_CONSIDER_ON_TOP)
                 => Selected
           /\ (\/ LatDistance = DISTANCE_TO_STOP_TO_CONSIDER_ON_TOP + 1
               \/ LngDistance = DISTANCE_TO_STOP_TO_CONSIDER_ON_TOP + 1)
                 => ~Selected
           /\ (fort.latitude = 0 \/ fort.longitude = 0) => ~Selected

\* C20 witness: a candidate with non-zero coordinates at exactly the epsilon
\* in latitude and in longitude has been selected, and Phase A has returned
\* the status of this candidate.
C20_Witness ==
    /\ pa_pc = "done"
    /\ Selected
    /\ position_type = fort_status
    /\ fort.latitude # 0 /\ fort.longitude # 0
    /\ LatDistance = DISTANCE_TO_STOP_TO_CONSIDER_ON_TOP
    /\ LngDistance = DISTANCE_TO_STOP_TO_CONSIDER_ON_TOP

\* The statuses of a failed check: Phase A calls _spinnable_data_failure
\* before it returns them.
FailedChecks == {"GMO_NOT_AVAILABLE", "GMO_EMPTY", "NO_FORT"}

\* C21 as claimed: once the failure counter stands at 10, that is after 10
\* failed checks that no success and no restart has interrupted, the app
\* restart has been issued.
C21_RestartAfterTenFailures ==
    spinnable_data_failcount >= 10 => data_failure = "restart"

\* C21 as amended: the failure counter stays within 0..10; a failed check
\* that finds the counter at 10 (the 11th failed check since the counter was
\* last reset) resets it to 0 and issues the app restart; a failed check that
\* finds it below 10 adds one and issues no restart; a check that does not
\* fail leaves the counter as it is or resets it to 0, and issues no restart.
C21_RestartAtEleventhFailure ==
    /\ [](/\ spinnable_data_failcount \in 0..10
          /\ data_failure = "restart" => spinnable_data_failcount = 0
          /\ (data_failure # "none" /\ pa_pc = "done")
                => position_type \in FailedChecks)
    /\ [][/\ data_failure' # "none" =>
               IF spinnable_data_failcount = 10
               THEN /\ data_failure' = "restart"
                    /\ spinnable_data_failcount' = 0
               ELSE /\ data_failure' = "counted"
                    /\ spinnable_data_failcount' = spinnable_data_failcount + 1
          /\ data_failure' = "none" =>
               spinnable_data_failcount' \in {0, spinnable_data_failcount}
         ]_vars

\* C21 witness: a no-fort check has found the counter at 10, and Phase A has
\* returned after the restart with the counter at 0.
C21_Witness ==
    /\ pa_pc = "done"
    /\ position_type = "NO_FORT"
    /\ data_failure = "restart"
    /\ spinnable_data_failcount = 0

NoStopAtAll == {"GMO_NOT_AVAILABLE", "GMO_EMPTY", "GYM", "NO_FORT"}

C26_AtMostFourWaits == waits <= 4

\* C25: an entry of latest that makes the wait for the details of a stop or
\* for the result of a spin return a type is not older than the action
\* waited for (self._stop_process_time).
C25_NotOlderThanAction ==
    accepted_ts # Absent => accepted_ts >= stop_process_time

C27_WitnessFar ==
    /\ move_pc = "sleep"
    /\ move_command = "set_location"
    /\ area_speed # 0
    /\ last_location # ZeroLocation
    /\ area_max_distance = 2 /\ move_distance = 3

\* C28: the time that a move sleeps is never negative: a budget under 0 gives
\* no sleep and a recorded sleep time of 0, the loop looks at the stop flag
\* and the route manager before every second it sleeps, and a move that
\* raised there has slept no second after the kill and has recorded no new
\* last location.
C28_BudgetAndStopCheck ==
    /\ [](current_sleep_time >= 0)
    /\ []((move_pc \in {"sleep", "slept", "raised"} /\ delay_used < 0) =>
           (slept = 0 /\ current_sleep_time = 0 /\ move_pc = "slept"))
    /\ [][LET stopped == ~routemanager_present \/ stop_worker_event
          IN  /\ (slept' = slept + 1 => ~stopped)
              /\ (move_pc = "sleep" /\ stopped /\ move_pc' # "sleep") =>
                   IF elapsed <= delay_used
                   THEN /\ move_pc' = "raised"
                        /\ last_location' = last_location
                        /\ slept' = slept /\ current_sleep_time' = 0
                   ELSE move_pc' = "slept"
              /\ (move_pc = "raised" => last_location' = last_location)]_vars

C28_Witness ==
    /\ move_pc = "raised"
    /\ slept > 0
    /\ delay_used > slept
    /\ last_location # target_location

C28_WitnessNoSleep ==
    /\ move_pc = "slept"
    /\ delay_used < 0
    /\ slept = 0
\* C29: a call that classified GPS or NOTRESPONDING has rebooted the device at
\* that classification and exactly once, has returned False, and classifies
\* nothing more.
C29_RebootAtOnce ==
    /\ [](screen_type \in {"GPS", "NOTRESPONDING"} =>
           /\ screen_pc = "done"
           /\ leave = "reboot"
           /\ last_classified = screen_type
           /\ reboots = 1
           /\ restarted = "no"
           /\ screen_ret = "false"
           /\ stop_worker_event)
    /\ [][(screen_type \in {"GPS", "NOTRESPONDING"} /\ screen_type' = screen_type)
           => UNCHANGED <<n_classified, run_type, run_len, reboots, screen_ret>>]_vars

\* NOTRESPONDING after another classification of the same call.
C29_Witness ==
    /\ screen_type = "NOTRESPONDING"
    /\ n_classified = 2
    /\ reboots = 1

\* C30 as stated: the 4th classification in a row of a screen type after which
\* the loop goes on restarts the app.
C30_RestartAtFourth ==
    [][(/\ run_len = 3 /\ run_len' = 4
        /\ run_type' \in {"UNDEFINED", "BLACK", "UPDATE"})
       => (leave' = "frozen" /\ restarted' # "no")]_vars

\* What the code does instead: the remedy of the frozen screen runs when the
\* classification was the last recorded screen type 4 times in a row, never before
\* the 4th and at the latest at the 5th classification in a row of one type
\* that is not POGO, QUEST or ERROR; with a count of 4 it restarts the app
\* and reboots exactly when the restart failed, with a count above 4 (the
\* same classification again after the restart) it reboots without a
\* restart.
FrozenAtFourthRepetition ==
    [][/\ (leave' = "frozen" /\ leave # "frozen") =>
            /\ run_len' >= 4
            /\ same_screen_count' >= 4
            /\ run_type' \notin GoodScreens \cup {"ERROR"}
            /\ same_screen_count' = 4 =>
                 (restarted' # "no" /\ (reboots' = 1 <=> restarted' = "failed"))
            /\ same_screen_count' > 4 => (restarted' = "no" /\ reboots' = 1)
            /\ screen_ret' = "false"
       /\ (/\ run_len = 4 /\ run_len' = 5
           /\ run_type' \in {"UNDEFINED", "BLACK", "UPDATE"})
          => leave' = "frozen"]_vars

\* BLACK five times in a row: the restart at the 5th.
FrozenAtFifthBlack ==
    /\ leave = "frozen"
    /\ run_type = "BLACK"
    /\ run_len = 5
    /\ same_screen_count = 4
    /\ restarted = "ok"
    /\ reboots = 0

\* The same classification again after the restart: the reboot.
FrozenAgainReboots ==
    /\ leave = "frozen"
    /\ same_screen_count = 5
    /\ restarted = "no"
    /\ reboots = 1
\* C31: a pass of the screen check that ends with the login-error counter
\* above 1 stops the app, clears the cache of the app, wipes the data of the
\* app exactly when CLEAR_GAME_DATA is set, sets the counter to 0 and reboots
\* the device, in this order and after the remedy of the screen type, and the
\* loop is left: the call has returned.
C31_EscalationOrder ==
    leave = "login" =>
      LET expected == IF clear_game_data
                      THEN <<"stop_pogo", "clear_app_cache", "reset_app_data",
                             "reset_counter", "reboot">>
                      ELSE <<"stop_pogo", "clear_app_cache", "reset_counter",
                             "reboot">>
          n == Len(pass_commands)
      IN  /\ n >= Len(expected)
          /\ SubSeq(pass_commands, n - Len(expected) + 1, n) = expected
          /\ \A i \in 1..(n - Len(expected)) :
                pass_commands[i] \in {"start_pogo", "restart_pogo_safe"}
          /\ loginerrorcounter = 0
          /\ reboots = 1
          /\ escalated_at = n_classified
          /\ screen_pc = "done"
          /\ screen_ret = "false"

\* The escalation after the second CLOSE, with and without the wipe.
C31_Witness ==
    /\ leave = "login"
    /\ clear_game_data
    /\ last_classified = "CLOSE"
    /\ Len(pass_commands) = 6

C31_WitnessNoWipe ==
    /\ leave = "login"
    /\ ~clear_game_data
    /\ last_classified = "ERROR"
    /\ Len(pass_commands) = 4
\* The screen types of C32: login error (game data), failure and error.
LoginErrorScreens == {"GAMEDATA", "FAILURE", "ERROR"}

\* The pass before this state called _restart_pogo_safe.
SafeRestarted == \E i \in 1..Len(pass_commands) : pass_commands[i] = "restart_pogo_safe"

\* C32 as stated: after a classification of GAMEDATA, FAILURE or ERROR the
\* safe restart of the app has run exactly when that classification was the
\* second login error, never at the first one.
C32_SafeRestartAfterSecond ==
    (last_classified \in LoginErrorScreens /\ leave \in {"none", "login"}) =>
        (SafeRestarted <=> leave = "login")

\* C32, amended: after a classification of GAMEDATA, FAILURE or ERROR the
\* login-error counter is one higher, which is 1, or the escalation of the
\* second login error has set it to 0; the safe restart of the app has run
\* exactly when the classification was GAMEDATA and the first login error,
\* and never for FAILURE or ERROR.
C32_SafeRestartAtFirstGamedata ==
    (last_classified \in LoginErrorScreens /\ screen_pc \in {"loop", "done"}) =>
        /\ leave \in {"none", "stop", "login"}
        /\ leave \in {"none", "stop"} => loginerrorcounter = 1
        /\ leave = "login" => (loginerrorcounter = 0 /\ reboots = 1)
        /\ SafeRestarted <=> (last_classified = "GAMEDATA" /\ leave # "login")

\* The first classification of a call with initial counters is GAMEDATA:
\* the safe restart has run.
C32_Witness ==
    /\ fresh /\ n_classified = 1
    /\ last_classified = "GAMEDATA"
    /\ pass_commands = <<"restart_pogo_safe">>
    /\ loginerrorcounter = 1

\* The second login error is GAMEDATA: no safe restart, the escalation.
C32_WitnessSecond ==
    /\ n_classified = 2
    /\ last_classified = "GAMEDATA"
    /\ leave = "login"
    /\ ~SafeRestarted
\* C33: one call of _try_to_open_pokestop clicks the stop at most 3 times;
\* every click is followed by the wait for the details, whose answer is
\* taken; no click follows the answer STOP or the 3rd click, the call
\* returns then; and a click that opened a gym or an encounter counts as one
\* of the 3.
C33_AtMostThreeTaps ==
    /\ [](open_to <= 3)
    /\ [][/\ (open_to' = open_to + 1) =>
               /\ stop_pc = "tap" /\ stop_pc' = "tap"
               /\ type_received # "STOP" /\ open_to < 3
               /\ tapped'
               /\ type_received' \in {"UNDEFINED", "GYM", "MON", "STOP"}
          /\ (stop_pc = "tap" /\ (type_received = "STOP" \/ open_to = 3)) =>
               (stop_pc' # "tap" /\ open_to' = 0)
          /\ (stop_pc = "tap" /\ type_received # "STOP" /\ open_to < 3) =>
               open_to' = open_to + 1]_vars

\* Three clicks, the last on a gym: the call is about to return.
C33_Witness ==
    /\ stop_pc = "tap"
    /\ open_to = 3
    /\ type_received = "GYM"

\* The details of the stop after the first click.
C33_WitnessFirst ==
    /\ stop_pc = "tap"
    /\ open_to = 1
    /\ type_received = "STOP"
\* C34: when the wait for the spin result answers that the inventory is full,
\* _handle_stop sets the task of the clear thread to BOX, asks the Router to
\* offer the location again, and returns: no further wait for a spin result,
\* no click and no quest bookkeeping follow in that call.
C34_InventoryFull ==
    /\ [][(stop_pc = "handle" /\ data_received' = "INVENTORY") =>
            /\ clear_thread_task' = BOX
            /\ redo_requested'
            /\ stop_pc' = "done"
            /\ UNCHANGED <<tapped, clear_quest_counter, coords_removed>>]_vars
    /\ [][(redo_requested /\ redo_requested') =>
            UNCHANGED <<waits, tapped, data_received, stop_pc>>]_vars
    /\ [](redo_requested => (stop_pc = "done" /\ data_received = "INVENTORY"))

\* The inventory is full at the second wait for a spin result.
C34_Witness ==
    /\ redo_requested
    /\ clear_thread_task = BOX
    /\ waits = 2
    /\ stop_pc = "done"
\* C35 as claimed: a thread in which _reboot was executed has the stop flag
\* set when it ends, starts no iteration after the reboot and has run the
\* cleanup when it ends.
C35_RebootReachesCleanup ==
    (reboot_run /\ pc = "returned") => (stop_worker_event /\ cleanup_count = 1)
\* C36 as claimed: _reboot sends the reboot command and saves last_reboot only
\* when the device setting REBOOT is on.
C36_RebootOnlyWhenEnabled ==
    (reboot_sent \/ reboot_saved) => reboot_setting
\* C37: while a call of the screen check is in its loop, that is at the start
\* of every classification, and when it has returned, the login-error counter
\* is 0 or 1; it is 0 when the call has returned True and 0 after the
\* escalation of the second login error.
C37_LoginCounterBounded ==
    /\ screen_pc \in {"idle", "loop", "done"} => loginerrorcounter \in {0, 1}
    /\ (screen_pc = "done" /\ screen_ret = "true") => loginerrorcounter = 0
    /\ (screen_pc = "done" /\ escalated_at # 0) => loginerrorcounter = 0

\* A classification starts with a counted login error, and a call returns
\* with it.
C37_Witness ==
    /\ loginerrorcounter = 1
    /\ \/ screen_pc = "loop" /\ n_classified = 2
       \/ screen_pc = "done" /\ leave = "disabled" /\ n_classified = 2
\* C38: whenever the clear thread releases the work mutex the task flag is
\* IDLE: after a cleanup that ran through, after a typed stop condition in the
\* cleanup, and after a QUEST request in level mode, which is dropped without
\* a command of a cleanup.
C38_IdleAtRelease ==
    [][/\ (work_mutex = "clear" /\ work_mutex' # "clear") =>
            (clear_thread_task' = IDLE /\ work_mutex' = "none")
       /\ (/\ clear_pc = "locked" /\ clear_pc' # "locked"
           /\ clear_thread_task = QUEST /\ level_mode) =>
            (clear_pc' = "after" /\ last_command' = last_command)]_vars

\* A QUEST request in level mode is under the mutex of the clear thread and
\* no cleanup was started for it.
C38_Witness ==
    /\ clear_pc = "after"
    /\ work_mutex = "clear"
    /\ clear_thread_task = QUEST
    /\ level_mode

\* C39 as claimed: once a typed stop condition raised in a cleanup has ended
\* the clear thread (stop flag set, no further command of the clear thread),
\* the control loop does not end without the cleanup, and the clear thread
\* issues no command any more.
C39_ClearStopReachesCleanup ==
    [][/\ (clear_pc = "removed" /\ main_pc # "failed") => main_pc' # "failed"
       /\ clear_pc = "removed" =>
            /\ clear_pc' = "removed"
            /\ last_command' # last_command => last_command'.by = "main"]_vars

\* C40: FINISHED changes only in a step that sets it and ends the loop, and
\* that step is the failed max-walkers check, a walker check that returned
\* False, or the validation of an absent location; a step that ends the
\* loop with a typed stop condition or at the loop head with the stop flag
\* set leaves FINISHED as it was, so that FINISHED is set only in a thread
\* that has left the loop.
C40_FinishedOnlyAtPolicyStops ==
    /\ [][/\ (finished' # finished) =>
               (/\ finished' /\ pc' = "cleanup"
                /\ \/ pc = "max_walkers"
                   \/ pc \in {"walker", "idle_wake"} /\ walker_stop'
                   \/ pc = "valid" /\ current_location = "none")
          /\ (/\ pc # "cleanup" /\ pc' = "cleanup"
              /\ raised' # raised \/ pc = "loop_head") =>
               (finished' = finished)]_vars
    /\ [](finished => pc \in {"cleanup", "returned"})

\* The router had no more locations: the thread has ended with FINISHED set
\* by the validation of the location.
C40_Witness ==
    /\ finished /\ ~walker_stop
    /\ current_location = "none"
    /\ iteration # <<>> /\ iteration[Len(iteration)] = "valid"
    /\ pc = "returned"

\* The post-move routine raised a typed stop condition: the thread has ended
\* with FINISHED not set.
C40_WitnessTypedStop ==
    /\ ~finished
    /\ raised = "InternalStopWorkerException"
    /\ iteration # <<>> /\ iteration[Len(iteration)] = "post_move"
    /\ pc = "returned" /\ cleanup_count = 1
====
